---- MODULE Spec2Model ----
(***************************************************************************)
(* MicroModel: the prompt similarity scoring engine (prompts/detection)    *)
(* and the request-forwarding relay (routes).                              *)
(*                                                                         *)
(* A prompt is a sequence of one-character strings.  Scores are carried    *)
(* as exact numbers: a rational is a record [n, d] in lowest terms, NaN    *)
(* (the result of 0/0) is the record with d = 0, and the cosine, which is  *)
(* a quotient by a square root, is carried as [num, rad] = num/sqrt(rad).  *)
(* The rounding of IEEE-754 doubles is not modelled: the arithmetic is     *)
(* that of the reals.                                                      *)
(***************************************************************************)
EXTENDS Integers, Sequences, FiniteSets, TLC

(***************************************************************************)
(* Characters.                                                             *)
(***************************************************************************)
UpperLetters ==
  << "A", "B", "C", "D", "E", "F", "G", "H", "I", "J", "K", "L", "M",
     "N", "O", "P", "Q", "R", "S", "T", "U", "V", "W", "X", "Y", "Z" >>

LowerLetters ==
  << "a", "b", "c", "d", "e", "f", "g", "h", "i", "j", "k", "l", "m",
     "n", "o", "p", "q", "r", "s", "t", "u", "v", "w", "x", "y", "z" >>

Digits == {"0", "1", "2", "3", "4", "5", "6", "7", "8", "9"}

Range(f) == {f[i] : i \in DOMAIN f}

\* The regular expression class \w: ASCII letters, digits and the underscore.
WordChars == Range(UpperLetters) \cup Range(LowerLetters) \cup Digits \cup {"_"}

\* The regular expression class \s, over the characters the model carries.
WhiteSpace == {" ", "\t", "\n", "\r"}

\* The characters the regular expression "." does not match, and at which
\* "^" and "$" match under the m flag.
LineTerminators == {"\n", "\r"}

\* String.prototype.toLowerCase, one character.
ToLowerChar(c) ==
  IF \E i \in 1..26 : UpperLetters[i] = c
    THEN LowerLetters[CHOOSE i \in 1..26 : UpperLetters[i] = c]
    ELSE c

toLowerCase(s) == [i \in 1..Len(s) |-> ToLowerChar(s[i])]

\* The concatenation of the sequences parts[lo], ..., parts[hi].
RECURSIVE ConcatRange(_, _, _)
ConcatRange(parts, lo, hi) ==
  IF lo > hi THEN << >>
  ELSE IF lo = hi THEN parts[lo]
  ELSE LET mid == (lo + hi) \div 2
       IN  ConcatRange(parts, lo, mid) \o ConcatRange(parts, mid + 1, hi)

(***************************************************************************)
(* normalizePrompt                                                         *)
(***************************************************************************)
\* .replace(/[^\w\s]/g, ' ')
ReplacePunctuation(s) ==
  [i \in 1..Len(s) |->
     IF s[i] \in WordChars \/ s[i] \in WhiteSpace THEN s[i] ELSE " "]

\* .replace(/\s+/g, ' '): every maximal run of white space becomes one space.
CollapseWhiteSpace(s) ==
  LET kept == [i \in 1..Len(s) |->
                 IF s[i] \notin WhiteSpace THEN << s[i] >>
                 ELSE IF i > 1 /\ s[i - 1] \in WhiteSpace THEN << >>
                 ELSE << " " >>]
  IN  ConcatRange(kept, 1, Len(s))

\* .trim()
Trim(s) ==
  LET Inked == {i \in 1..Len(s) : s[i] \notin WhiteSpace}
  IN  IF Inked = {} THEN << >>
      ELSE LET first == CHOOSE i \in Inked : \A k \in Inked : i <= k
               last  == CHOOSE i \in Inked : \A k \in Inked : k <= i
           IN  SubSeq(s, first, last)

\* .split(' '): the pieces between the spaces; the empty string gives [""].
Split(s) ==
  LET Cuts   == {0, Len(s) + 1} \cup {i \in 1..Len(s) : s[i] = " "}
      NextCut(c) == CHOOSE k \in Cuts : k > c /\ \A m \in Cuts : m > c => k <= m
      pieces == [c \in 0..Len(s) |->
                   IF c \in Cuts
                     THEN << SubSeq(s, c + 1, NextCut(c) - 1) >>
                     ELSE << >>]
  IN  ConcatRange(pieces, 0, Len(s))

stopWords ==
  { <<"t","h","e">>, <<"a","n","d">>, <<"o","r">>, <<"b","u","t">>,
    <<"i","n">>, <<"o","n">>, <<"a","t">>, <<"t","o">>, <<"f","o","r">>,
    <<"o","f">>, <<"w","i","t","h">>, <<"b","y">>, <<"f","r","o","m">>,
    <<"a","s">>, <<"i","s">>, <<"a","r","e">>, <<"w","a","s">>,
    <<"w","e","r","e">>, <<"b","e">>, <<"b","e","e","n">>,
    <<"b","e","i","n","g">>, <<"h","a","v","e">>, <<"h","a","s">>,
    <<"h","a","d">>, <<"d","o">>, <<"d","o","e","s">>, <<"d","i","d">>,
    <<"w","i","l","l">>, <<"w","o","u","l","d">>, <<"c","o","u","l","d">>,
    <<"s","h","o","u","l","d">>, <<"m","a","y">>, <<"m","i","g","h","t">>,
    <<"m","u","s","t">>, <<"c","a","n">>, <<"s","h","a","l","l">>,
    <<"t","h","i","s">>, <<"t","h","a","t">>, <<"t","h","e","s","e">>,
    <<"t","h","o","s","e">>, <<"y","o","u","r">>, <<"y","o","u">>,
    <<"a","l","l">>, <<"a","n","y">>, <<"e","a","c","h">>, <<"f","e","w">>,
    <<"m","o","r","e">>, <<"m","o","s","t">>, <<"o","t","h","e","r">>,
    <<"s","o","m","e">>, <<"s","u","c","h">>, <<"o","n","l","y">>,
    <<"o","w","n">>, <<"s","a","m","e">>, <<"s","o">>, <<"t","h","a","n">>,
    <<"t","o","o">>, <<"v","e","r","y">>, <<"j","u","s","t">>,
    <<"n","o","w">> }

isStopWord(word) == toLowerCase(word) \in stopWords

\* Array.prototype.filter: the words of which keep is true, in their order.
Filter(words, keep) ==
  LET kept == [i \in 1..Len(words) |->
                 IF keep[i] THEN << words[i] >> ELSE << >>]
  IN  ConcatRange(kept, 1, Len(words))

\* A length filter that keeps the words of two characters.
LongerThanOne(word) == Len(word) > 1

LongEnough(word) == Len(word) > 2

\* A stop-word filter that keeps every word.
KeepsEveryWord(word) == TRUE

NotStopWord(word) == ~isStopWord(word)

normalizePrompt(prompt) ==
  LET words ==
        Split(Trim(CollapseWhiteSpace(ReplacePunctuation(toLowerCase(prompt)))))
      long == Filter(words, [i \in 1..Len(words) |-> LongEnough(words[i])])
  IN  Filter(long, [i \in 1..Len(long) |-> NotStopWord(long[i])])

(***************************************************************************)
(* Numbers.                                                                *)
(***************************************************************************)
RECURSIVE GCD(_, _)
GCD(a, b) == IF b = 0 THEN a ELSE GCD(b, a % b)

Abs(x) == IF x < 0 THEN 0 - x ELSE x

Min(a, b) == IF a <= b THEN a ELSE b

Max(a, b) == IF a >= b THEN a ELSE b

NaN == [n |-> 0, d |-> 0]

IsNaN(x) == x.d = 0

\* The rational n/d, d > 0, in lowest terms.
Frac(n, d) ==
  LET g == GCD(Abs(n), d) IN [n |-> n \div g, d |-> d \div g]

Zero == Frac(0, 1)

One == Frac(1, 1)

\* The JavaScript quotient a / b of two non-negative integers: 0/0 is NaN.
Quotient(a, b) == IF b = 0 /\ a = 0 THEN NaN ELSE Frac(a, b)

RAdd(x, y) ==
  IF IsNaN(x) \/ IsNaN(y) THEN NaN
  ELSE LET g == GCD(x.d, y.d)
       IN  Frac(x.n * (y.d \div g) + y.n * (x.d \div g), (x.d \div g) * y.d)

RSub(x, y) == RAdd(x, [n |-> 0 - y.n, d |-> y.d])

\* x / k for an integer k > 0.
RDivInt(x, k) ==
  IF IsNaN(x) THEN NaN
  ELSE LET g == GCD(Abs(x.n), k) IN Frac(x.n \div g, x.d * (k \div g))

RLeq(x, y) == x.n * y.d <= y.n * x.d

(***************************************************************************)
(* calculateJaccardSimilarity                                              *)
(***************************************************************************)
\* The quotient of the two sizes without the test for an empty union.
JaccardWithoutEmptyTest(words1, words2) ==
  Quotient(Cardinality({word \in Range(words1) : word \in Range(words2)}),
           Cardinality(Range(words1) \cup Range(words2)))

\* The shared words over all the words of the two lists, counted with their
\* repetitions.
JaccardOverOccurrences(words1, words2) ==
  LET shared == {i \in DOMAIN words1 : words1[i] \in Range(words2)}
      total == Len(words1) + Len(words2) - Cardinality(shared)
  IN  IF total = 0 THEN Zero ELSE Frac(Cardinality(shared), total)

calculateJaccardSimilarity(words1, words2) ==
  LET set1 == Range(words1)
      set2 == Range(words2)
      intersection == {word \in set1 : word \in set2}
      union == set1 \cup set2
  IN  IF Cardinality(union) = 0 THEN Zero
      ELSE Frac(Cardinality(intersection), Cardinality(union))

(***************************************************************************)
(* calculateCosineSimilarity                                               *)
(***************************************************************************)
\* A count that is 1 for a word the list does not have.
OccurrencesAtLeastOne(words, word) ==
  Max(1, Cardinality({i \in DOMAIN words : words[i] = word}))

\* words.filter(w => w === word).length
Occurrences(words, word) == Cardinality({i \in DOMAIN words : words[i] = word})

\* [...new Set(words)]: the distinct words, each at its first place.
Distinct(words) ==
  LET firsts == [i \in 1..Len(words) |->
                   IF \E k \in 1..(i - 1) : words[k] = words[i]
                     THEN << >> ELSE << words[i] >>]
  IN  ConcatRange(firsts, 1, Len(words))

\* reduce((sum, val) => sum + val, 0) over values[lo], ..., values[hi].
RECURSIVE Sum(_, _, _)
Sum(values, lo, hi) ==
  IF lo > hi THEN 0
  ELSE IF lo = hi THEN values[lo]
  ELSE LET mid == (lo + hi) \div 2
       IN  Sum(values, lo, mid) + Sum(values, mid + 1, hi)

\* The dot product divided by the first magnitude alone.
CosineOverFirstMagnitude(words1, words2) ==
  LET allWords == Distinct(words1 \o words2)
      size == Len(allWords)
      vector1 == [k \in 1..size |-> Occurrences(words1, allWords[k])]
      vector2 == [k \in 1..size |-> Occurrences(words2, allWords[k])]
      dotProduct == Sum([k \in 1..size |-> vector1[k] * vector2[k]], 1, size)
      squares1 == Sum([k \in 1..size |-> vector1[k] * vector1[k]], 1, size)
      squares2 == Sum([k \in 1..size |-> vector2[k] * vector2[k]], 1, size)
  IN  IF squares1 = 0 \/ squares2 = 0 THEN [num |-> 0, rad |-> 1]
      ELSE [num |-> dotProduct, rad |-> squares1]

\* A cosine of 1 when a magnitude is 0.
CosineOneWithoutWords(words1, words2) ==
  LET allWords == Distinct(words1 \o words2)
      size == Len(allWords)
      vector1 == [k \in 1..size |-> Occurrences(words1, allWords[k])]
      vector2 == [k \in 1..size |-> Occurrences(words2, allWords[k])]
      dotProduct == Sum([k \in 1..size |-> vector1[k] * vector2[k]], 1, size)
      squares1 == Sum([k \in 1..size |-> vector1[k] * vector1[k]], 1, size)
      squares2 == Sum([k \in 1..size |-> vector2[k] * vector2[k]], 1, size)
  IN  IF squares1 = 0 \/ squares2 = 0 THEN [num |-> 1, rad |-> 1]
      ELSE [num |-> dotProduct, rad |-> squares1 * squares2]

\* The quotient without the test for a magnitude of 0.
CosineWithoutZeroTest(words1, words2) ==
  LET allWords == Distinct(words1 \o words2)
      size == Len(allWords)
      vector1 == [k \in 1..size |-> Occurrences(words1, allWords[k])]
      vector2 == [k \in 1..size |-> Occurrences(words2, allWords[k])]
      dotProduct == Sum([k \in 1..size |-> vector1[k] * vector2[k]], 1, size)
      squares1 == Sum([k \in 1..size |-> vector1[k] * vector1[k]], 1, size)
      squares2 == Sum([k \in 1..size |-> vector2[k] * vector2[k]], 1, size)
  IN  [num |-> dotProduct, rad |-> squares1 * squares2]

\* The cosine dotProduct / (magnitude1 * magnitude2) is carried as
\* [num, rad], the number num / sqrt(rad): the magnitudes are the square
\* roots of the sums of squares, whose product is rad.
calculateCosineSimilarity(words1, words2) ==
  LET allWords == Distinct(words1 \o words2)
      size == Len(allWords)
      vector1 == [k \in 1..size |-> Occurrences(words1, allWords[k])]
      vector2 == [k \in 1..size |-> Occurrences(words2, allWords[k])]
      dotProduct == Sum([k \in 1..size |-> vector1[k] * vector2[k]], 1, size)
      squares1 == Sum([k \in 1..size |-> vector1[k] * vector1[k]], 1, size)
      squares2 == Sum([k \in 1..size |-> vector2[k] * vector2[k]], 1, size)
  IN  IF squares1 = 0 \/ squares2 = 0 THEN [num |-> 0, rad |-> 1]
      ELSE [num |-> dotProduct, rad |-> squares1 * squares2]

(***************************************************************************)
(* calculateStructuralSimilarity: the seven patterns of formatPatterns,    *)
(* each with the number of matches String.prototype.match finds under the  *)
(* g flag (leftmost, non-overlapping).                                     *)
(***************************************************************************)
Least(S) == CHOOSE x \in S : \A y \in S : x <= y

At(s, i, c) == i >= 1 /\ i <= Len(s) /\ s[i] = c

\* The position of the first line terminator at or after i, Len(s) + 1 if none.
LineEnd(s, i) ==
  LET ends == {k \in i..Len(s) : s[k] \in LineTerminators}
  IN  IF ends = {} THEN Len(s) + 1 ELSE Least(ends)

\* /\*\*.*?\*\*/g
RECURSIVE CountBold(_, _)
CountBold(s, from) ==
  LET Closes(i) == {j \in (i + 2)..(LineEnd(s, i + 2) - 2) :
                      At(s, j, "*") /\ At(s, j + 1, "*")}
      opens == {i \in from..Len(s) :
                  At(s, i, "*") /\ At(s, i + 1, "*") /\ Closes(i) # {}}
  IN  IF opens = {} THEN 0
      ELSE 1 + CountBold(s, Least(Closes(Least(opens))) + 2)

\* /##.*$/gm
RECURSIVE CountHeaders(_, _)
CountHeaders(s, from) ==
  LET opens == {i \in from..Len(s) : At(s, i, "#") /\ At(s, i + 1, "#")}
  IN  IF opens = {} THEN 0
      ELSE 1 + CountHeaders(s, LineEnd(s, Least(opens)))

\* /^\-/gm
CountBullets(s) ==
  Cardinality({i \in 1..Len(s) :
                 s[i] = "-" /\ (i = 1 \/ s[i - 1] \in LineTerminators)})

\* /\{[\s\S]*?\}/g
RECURSIVE CountBraces(_, _)
CountBraces(s, from) ==
  LET Closes(i) == {j \in (i + 1)..Len(s) : s[j] = "}"}
      opens == {i \in from..Len(s) : s[i] = "{" /\ Closes(i) # {}}
  IN  IF opens = {} THEN 0
      ELSE 1 + CountBraces(s, Least(Closes(Least(opens))) + 1)

\* /\[.*?\]/g
RECURSIVE CountBrackets(_, _)
CountBrackets(s, from) ==
  LET Closes(i) == {j \in (i + 1)..(LineEnd(s, i + 1) - 1) : s[j] = "]"}
      opens == {i \in from..Len(s) : s[i] = "[" /\ Closes(i) # {}}
  IN  IF opens = {} THEN 0
      ELSE 1 + CountBrackets(s, Least(Closes(Least(opens))) + 1)

\* A word of an alternation under the i flag matches at position i.
WordAt(s, i, word) ==
  /\ i + Len(word) - 1 <= Len(s)
  /\ \A k \in 1..Len(word) : ToLowerChar(s[i + k - 1]) = word[k]

\* /word1|word2|word3/gi
RECURSIVE CountWords(_, _, _)
CountWords(s, words, from) ==
  LET starts == {i \in from..Len(s) : \E word \in words : WordAt(s, i, word)}
  IN  IF starts = {} THEN 0
      ELSE LET i == Least(starts)
               word == CHOOSE w \in words : WordAt(s, i, w)
           IN  1 + CountWords(s, words, i + Len(word))

promptVerbs ==
  { <<"e","x","t","r","a","c","t">>, <<"a","n","a","l","y","z","e">>,
    <<"i","d","e","n","t","i","f","y">> }

formatWords ==
  { <<"f","o","r","m","a","t">>, <<"s","t","r","u","c","t","u","r","e">>,
    <<"t","e","m","p","l","a","t","e">> }

formatPatterns ==
  << "bold", "headers", "bullets", "braces", "brackets", "verbs", "format" >>

\* (prompt.match(pattern) || []).length
MatchCount(pattern, prompt) ==
  CASE pattern = "bold"     -> CountBold(prompt, 1)
    [] pattern = "headers"  -> CountHeaders(prompt, 1)
    [] pattern = "bullets"  -> CountBullets(prompt)
    [] pattern = "braces"   -> CountBraces(prompt, 1)
    [] pattern = "brackets" -> CountBrackets(prompt, 1)
    [] pattern = "verbs"    -> CountWords(prompt, promptVerbs, 1)
    [] pattern = "format"   -> CountWords(prompt, formatWords, 1)

\* The difference of the two counts over the greater, not taken from 1.
PatternScoreOfDifference(pattern, prompt1, prompt2) ==
  LET matches1 == MatchCount(pattern, prompt1)
      matches2 == MatchCount(pattern, prompt2)
      maxMatches == Max(matches1, matches2)
  IN  IF maxMatches > 0
        THEN Frac(Abs(matches1 - matches2), maxMatches)
        ELSE One

\* What one pattern adds to structuralScore.
PatternScore(pattern, prompt1, prompt2) ==
  LET matches1 == MatchCount(pattern, prompt1)
      matches2 == MatchCount(pattern, prompt2)
      maxMatches == Max(matches1, matches2)
  IN  IF maxMatches > 0
        THEN RSub(One, Frac(Abs(matches1 - matches2), maxMatches))
        ELSE One

\* The length of the first prompt over the length of the second.
FirstOverSecondLength(prompt1, prompt2) ==
  Quotient(Len(prompt1), Len(prompt2))

lengthRatio(prompt1, prompt2) ==
  Quotient(Min(Len(prompt1), Len(prompt2)), Max(Len(prompt1), Len(prompt2)))

RECURSIVE PatternSum(_, _, _)
PatternSum(k, prompt1, prompt2) ==
  IF k = 0 THEN Zero
  ELSE RAdd(PatternSum(k - 1, prompt1, prompt2),
            PatternScore(formatPatterns[k], prompt1, prompt2))

\* The structural score without its division by totalChecks.
StructuralScoreUndivided(prompt1, prompt2) ==
  RAdd(PatternSum(Len(formatPatterns), prompt1, prompt2),
       Quotient(Min(Len(prompt1), Len(prompt2)),
                Max(Len(prompt1), Len(prompt2))))

calculateStructuralSimilarity(prompt1, prompt2) ==
  LET structuralScore ==
        RAdd(PatternSum(Len(formatPatterns), prompt1, prompt2),
             lengthRatio(prompt1, prompt2))
      totalChecks == Len(formatPatterns) + 1
  IN  IF totalChecks = 0 THEN Zero ELSE RDivInt(structuralScore, totalChecks)

(***************************************************************************)
(* calculateStructuralSimilarity with the state of its pattern matchers:   *)
(* each RegExp of formatPatterns has the g flag and a lastIndex, is made   *)
(* anew with lastIndex 0 by every call, and is matched with the first      *)
(* prompt and then with the second.                                        *)
(***************************************************************************)
\* The matches of a pattern that start at from or after it.
MatchCountFrom(pattern, prompt, from) ==
  CASE pattern = "bold"     -> CountBold(prompt, from)
    [] pattern = "headers"  -> CountHeaders(prompt, from)
    [] pattern = "bullets"  ->
         Cardinality({i \in from..Len(prompt) :
                        /\ prompt[i] = "-"
                        /\ i = 1 \/ prompt[i - 1] \in LineTerminators})
    [] pattern = "braces"   -> CountBraces(prompt, from)
    [] pattern = "brackets" -> CountBrackets(prompt, from)
    [] pattern = "verbs"    -> CountWords(prompt, promptVerbs, from)
    [] pattern = "format"   -> CountWords(prompt, formatWords, from)

\* A match that goes on from lastIndex and leaves it at the end of the
\* prompt.
MatchFromLastIndex(pattern, prompt, lastIndex) ==
  [length |-> MatchCountFrom(pattern, prompt, lastIndex + 1),
   lastIndex |-> Len(prompt)]

\* prompt.match(pattern) for a pattern with the g flag: lastIndex is set to
\* 0, every match is found, and the search that finds no more leaves
\* lastIndex at 0.
StringMatch(pattern, prompt, lastIndex) ==
  [length |-> MatchCountFrom(pattern, prompt, 0 + 1), lastIndex |-> 0]

\* What one pattern adds to structuralScore, the matcher being new.
MatchedScore(pattern, prompt1, prompt2) ==
  LET match1 == StringMatch(pattern, prompt1, 0)
      match2 == StringMatch(pattern, prompt2, match1.lastIndex)
      maxMatches == Max(match1.length, match2.length)
  IN  IF maxMatches > 0
        THEN RSub(One, Frac(Abs(match1.length - match2.length), maxMatches))
        ELSE One

RECURSIVE MatchedSum(_, _, _)
MatchedSum(k, prompt1, prompt2) ==
  IF k = 0 THEN Zero
  ELSE RAdd(MatchedSum(k - 1, prompt1, prompt2),
            MatchedScore(formatPatterns[k], prompt1, prompt2))

matchedStructuralSimilarity(prompt1, prompt2) ==
  LET structuralScore ==
        RAdd(MatchedSum(Len(formatPatterns), prompt1, prompt2),
             lengthRatio(prompt1, prompt2))
      totalChecks == Len(formatPatterns) + 1
  IN  IF totalChecks = 0 THEN Zero ELSE RDivInt(structuralScore, totalChecks)

(***************************************************************************)
(* Natural numbers of any size, as sequences of digits in base BigBase,    *)
(* least significant first: the products the rounding compares exceed the  *)
(* integers of the model checker.                                          *)
(***************************************************************************)
BigBase == 100 * 100

RECURSIVE BigOf(_)
BigOf(n) == IF n = 0 THEN << >> ELSE << n % BigBase >> \o BigOf(n \div BigBase)

RECURSIVE BigAddCarry(_, _, _)
BigAddCarry(a, b, carry) ==
  IF a = << >> /\ b = << >> THEN BigOf(carry)
  ELSE LET x == IF a = << >> THEN 0 ELSE Head(a)
           y == IF b = << >> THEN 0 ELSE Head(b)
           sum == x + y + carry
       IN  << sum % BigBase >>
             \o BigAddCarry(IF a = << >> THEN a ELSE Tail(a),
                            IF b = << >> THEN b ELSE Tail(b),
                            sum \div BigBase)

BigAdd(a, b) == BigAddCarry(a, b, 0)

\* a * m + carry for a digit m.
RECURSIVE BigTimesDigit(_, _, _)
BigTimesDigit(a, m, carry) ==
  IF a = << >> THEN BigOf(carry)
  ELSE LET prod == Head(a) * m + carry
       IN  << prod % BigBase >> \o BigTimesDigit(Tail(a), m, prod \div BigBase)

RECURSIVE BigStrip(_)
BigStrip(a) ==
  IF a # << >> /\ a[Len(a)] = 0 THEN BigStrip(SubSeq(a, 1, Len(a) - 1)) ELSE a

RECURSIVE BigMul(_, _)
BigMul(a, b) ==
  IF a = << >> \/ b = << >> THEN << >>
  ELSE BigStrip(BigAdd(BigTimesDigit(a, Head(b), 0),
                       IF Tail(b) = << >> THEN << >>
                       ELSE << 0 >> \o BigMul(a, Tail(b))))

\* a <= b
BigLeq(a, b) ==
  \/ Len(a) < Len(b)
  \/ /\ Len(a) = Len(b)
     /\ \/ a = b
        \/ \E i \in 1..Len(a) :
             /\ a[i] < b[i]
             /\ \A k \in (i + 1)..Len(a) : a[k] = b[k]

\* a - b for a >= b.
RECURSIVE BigSubBorrow(_, _, _)
BigSubBorrow(a, b, borrow) ==
  IF a = << >> THEN << >>
  ELSE LET y == (IF b = << >> THEN 0 ELSE Head(b)) + borrow
           under == Head(a) < y
       IN  << IF under THEN Head(a) + BigBase - y ELSE Head(a) - y >>
             \o BigSubBorrow(Tail(a), IF b = << >> THEN b ELSE Tail(b),
                             IF under THEN 1 ELSE 0)

BigSub(a, b) == BigStrip(BigSubBorrow(a, b, 0))

(***************************************************************************)
(* The cosine in the arithmetic of the code: a number of JavaScript is an  *)
(* IEEE 754 double.  A positive double is carried as [m, e], the number    *)
(* m * 2^e with the natural number m of 53 bits, 2^52 <= m < 2^53.         *)
(***************************************************************************)
significandBits == 53

\* 2^k, thirteen bits at a time: 2^13 is below BigBase.
RECURSIVE Pow2(_)
Pow2(k) ==
  IF k <= 13 THEN BigOf(2 ^ k) ELSE BigTimesDigit(Pow2(k - 13), 2 ^ 13, 0)

RECURSIVE FloorLog2(_)
FloorLog2(n) == IF n < 2 THEN 0 ELSE 1 + FloorLog2(n \div 2)

\* The greatest m + (bits below 2^(bit + 1)) whose square is at most N.
\* (The test of the length makes the model checker compute each step
\* before the next one.)
RECURSIVE SqrtBits(_, _, _)
SqrtBits(N, m, bit) ==
  IF bit < 0 THEN m
  ELSE LET more == BigAdd(m, Pow2(bit))
           next == IF BigLeq(BigMul(more, more), N) THEN more ELSE m
       IN  IF Len(next) > 0 THEN SqrtBits(N, next, bit - 1) ELSE next

\* The greatest m + (bits below 2^(bit + 1)) with m * 2^shift at most P.
RECURSIVE QuotientBits(_, _, _, _)
QuotientBits(P, shift, m, bit) ==
  IF bit < 0 THEN m
  ELSE LET more == BigAdd(m, Pow2(bit))
           next == IF BigLeq(BigMul(more, Pow2(shift)), P) THEN more ELSE m
       IN  IF Len(next) > 0 THEN QuotientBits(P, shift, next, bit - 1)
           ELSE next

\* A significand that rounding has carried to 2^53 is 2^52 one exponent up.
Renormalized(m, e) ==
  IF m = Pow2(significandBits)
    THEN [m |-> Pow2(significandBits - 1), e |-> e + 1]
    ELSE [m |-> m, e |-> e]

\* Math.sqrt of an integer sum > 0: the double nearest to the square root.
MathSqrt(sum) ==
  LET scale == (significandBits - 1) - (FloorLog2(sum) \div 2)
      N == BigMul(BigOf(sum), Pow2(2 * scale))
      floor == SqrtBits(N, Pow2(significandBits - 1), significandBits - 2)
      above == ~BigLeq(N, BigAdd(BigMul(floor, floor), floor))
  IN  Renormalized(IF above THEN BigAdd(floor, BigOf(1)) ELSE floor, 0 - scale)

\* magnitude1 * magnitude2: the double nearest to the product, the even one
\* of two that are as near.
DoubleProduct(x, y) ==
  LET P == BigMul(x.m, y.m)
      shift == IF BigLeq(Pow2(2 * significandBits - 1), P)
                 THEN significandBits ELSE significandBits - 1
      floor == QuotientBits(P, shift, Pow2(significandBits - 1),
                            significandBits - 2)
      rest == BigSub(P, BigMul(floor, Pow2(shift)))
      twice == BigAdd(rest, rest)
      above == \/ ~BigLeq(twice, Pow2(shift))
               \/ twice = Pow2(shift) /\ floor[1] % 2 = 1
  IN  Renormalized(IF above THEN BigAdd(floor, BigOf(1)) ELSE floor,
                   x.e + y.e + shift)

\* dotProduct / product > 1 in doubles: the quotient is above the middle of
\* 1 and the next double, 1 + 2^-53 (the middle itself rounds to 1).
QuotientAboveOne(dotProduct, product) ==
  LET up == IF product.e < 0 THEN 0 - product.e ELSE 0
      down == IF product.e > 0 THEN product.e ELSE 0
  IN  ~BigLeq(BigMul(BigOf(dotProduct), Pow2(significandBits + up)),
              BigMul(BigMul(product.m, Pow2(down)),
                     BigAdd(Pow2(significandBits), BigOf(1))))

\* calculateCosineSimilarity(words1, words2) > 1, as the code computes it.
cosineAboveOne(words1, words2) ==
  LET allWords == Distinct(words1 \o words2)
      size == Len(allWords)
      vector1 == [k \in 1..size |-> Occurrences(words1, allWords[k])]
      vector2 == [k \in 1..size |-> Occurrences(words2, allWords[k])]
      dotProduct == Sum([k \in 1..size |-> vector1[k] * vector2[k]], 1, size)
      squares1 == Sum([k \in 1..size |-> vector1[k] * vector1[k]], 1, size)
      squares2 == Sum([k \in 1..size |-> vector2[k] * vector2[k]], 1, size)
  IN  IF squares1 = 0 \/ squares2 = 0 THEN FALSE
      ELSE QuotientAboveOne(dotProduct,
                            DoubleProduct(MathSqrt(squares1), MathSqrt(squares2)))

(***************************************************************************)
(* createSimilarityScoreBetweenPrompts: the weighted combination and its   *)
(* rounding.                                                               *)
(***************************************************************************)
\* The weights 0.3, 0.4 and 0.3, in tenths.
jaccardWeight == 3

cosineWeight == 4

structuralWeight == 3

\* Math.round(finalScore * 1000) / 1000
roundingScale == 1000

\* The comparison below with the weights of jaccard and cosine exchanged.
ScaledAtLeastWeightsExchanged(k, jaccard, cosine, structural) ==
  LET u == (roundingScale \div 10) * 2
      jdsd == BigMul(BigOf(jaccard.d), BigOf(structural.d))
      left == BigMul(BigOf(2 * k - 1), jdsd)
      rational ==
        BigMul(BigOf(u),
               BigAdd(BigMul(BigOf(cosineWeight * jaccard.n), BigOf(structural.d)),
                      BigMul(BigOf(structuralWeight * structural.n), BigOf(jaccard.d))))
      surd == BigMul(BigOf(u * jaccardWeight * cosine.num), jdsd)
      rest == BigSub(left, rational)
  IN  \/ k <= 0
      \/ BigLeq(left, rational)
      \/ BigLeq(BigMul(BigMul(rest, rest), BigOf(cosine.rad)), BigMul(surd, surd))

\* finalScore * roundingScale >= k - 1/2, for the final score
\*   (jaccardWeight * jaccard + cosineWeight * cosine
\*      + structuralWeight * structural) / 10.
\* With jaccard = jn/jd, structural = sn/sd and cosine = num/sqrt(rad), and
\* u = roundingScale / 10 * 2, this is
\*   (2k - 1) * jd * sd - u * (jaccardWeight * jn * sd + structuralWeight * sn * jd)
\*     <= u * cosineWeight * num * jd * sd / sqrt(rad).
ScaledAtLeast(k, jaccard, cosine, structural) ==
  LET u == (roundingScale \div 10) * 2
      jdsd == BigMul(BigOf(jaccard.d), BigOf(structural.d))
      left == BigMul(BigOf(2 * k - 1), jdsd)
      rational ==
        BigMul(BigOf(u),
               BigAdd(BigMul(BigOf(jaccardWeight * jaccard.n), BigOf(structural.d)),
                      BigMul(BigOf(structuralWeight * structural.n), BigOf(jaccard.d))))
      surd == BigMul(BigOf(u * cosineWeight * cosine.num), jdsd)
      rest == BigSub(left, rational)
  IN  \/ k <= 0
      \/ BigLeq(left, rational)
      \/ BigLeq(BigMul(BigMul(rest, rest), BigOf(cosine.rad)), BigMul(surd, surd))

\* The greatest k in lo..hi with ScaledAtLeast(k, ...), by bisection.
RECURSIVE GreatestAtLeast(_, _, _, _, _)
GreatestAtLeast(lo, hi, jaccard, cosine, structural) ==
  IF lo = hi THEN lo
  ELSE LET mid == (lo + hi + 1) \div 2
       IN  IF ScaledAtLeast(mid, jaccard, cosine, structural)
             THEN GreatestAtLeast(mid, hi, jaccard, cosine, structural)
             ELSE GreatestAtLeast(lo, mid - 1, jaccard, cosine, structural)

\* Math.round(x) is the integer k with k - 1/2 <= x < k + 1/2.
RoundedScore(jaccard, cosine, structural) ==
  IF IsNaN(jaccard) \/ IsNaN(structural) THEN NaN
  ELSE Frac(GreatestAtLeast(0, 2 * roundingScale, jaccard, cosine, structural),
            roundingScale)

(***************************************************************************)
(* The prompts of the unit test (testPrompts.ts, detection.test.ts).       *)
(***************************************************************************)
\* create10kPrompt(): the template, ADDITIONAL_CONTEXT being empty.
create10kPrompt ==
  <<
     "\n", "\n", "E", "x", "t", "r", "a", "c", "t", " ", "t", "h", "e", " ",
     "f", "o", "l", "l", "o", "w", "i", "n", "g", " ", "b", "a", "s", "i",
     "c", " ", "i", "n", "f", "o", "r", "m", "a", "t", "i", "o", "n", " ",
     "f", "r", "o", "m", " ", "t", "h", "e", " ", "p", "r", "o", "v", "i",
     "d", "e", "d", " ", "1", "0", "-", "K", " ", "f", "i", "l", "i", "n",
     "g", " ", "a", "n", "d", " ", "p", "r", "e", "s", "e", "n", "t", " ",
     "i", "t", " ", "i", "n", " ", "a", " ", "s", "t", "r", "u", "c", "t",
     "u", "r", "e", "d", " ", "f", "o", "r", "m", "a", "t", ":", "\n", "\n",
     "\n", "\n", "*", "*", "C", "o", "m", "p", "a", "n", "y", " ", "O", "v",
     "e", "r", "v", "i", "e", "w", ":", "*", "*", "\n", "-", " ", "C", "o",
     "m", "p", "a", "n", "y", " ", "n", "a", "m", "e", " ", "a", "n", "d",
     " ", "t", "i", "c", "k", "e", "r", " ", "s", "y", "m", "b", "o", "l",
     "\n", "-", " ", "B", "u", "s", "i", "n", "e", "s", "s", " ", "d", "e",
     "s", "c", "r", "i", "p", "t", "i", "o", "n", " ", "(", "1", "-", "2",
     " ", "s", "e", "n", "t", "e", "n", "c", "e", "s", ")", "\n", "-", " ",
     "P", "r", "i", "m", "a", "r", "y", " ", "i", "n", "d", "u", "s", "t",
     "r", "y", "/", "s", "e", "c", "t", "o", "r", "\n", "-", " ", "H", "e",
     "a", "d", "q", "u", "a", "r", "t", "e", "r", "s", " ", "l", "o", "c",
     "a", "t", "i", "o", "n", "\n", "\n", "*", "*", "F", "i", "n", "a", "n",
     "c", "i", "a", "l", " ", "H", "i", "g", "h", "l", "i", "g", "h", "t",
     "s", ":", "*", "*", "\n", "-", " ", "T", "o", "t", "a", "l", " ", "r",
     "e", "v", "e", "n", "u", "e", " ", "(", "c", "u", "r", "r", "e", "n",
     "t", " ", "a", "n", "d", " ", "p", "r", "i", "o", "r", " ", "y", "e",
     "a", "r", ")", "\n", "-", " ", "N", "e", "t", " ", "i", "n", "c", "o",
     "m", "e", " ", "(", "c", "u", "r", "r", "e", "n", "t", " ", "a", "n",
     "d", " ", "p", "r", "i", "o", "r", " ", "y", "e", "a", "r", ")", "\n",
     "-", " ", "T", "o", "t", "a", "l", " ", "a", "s", "s", "e", "t", "s",
     "\n", "-", " ", "T", "o", "t", "a", "l", " ", "s", "h", "a", "r", "e",
     "h", "o", "l", "d", "e", "r", "s", "'", " ", "e", "q", "u", "i", "t",
     "y", "\n", "\n", "*", "*", "K", "e", "y", " ", "B", "u", "s", "i", "n",
     "e", "s", "s", " ", "I", "n", "f", "o", "r", "m", "a", "t", "i", "o",
     "n", ":", "*", "*", "\n", "-", " ", "N", "u", "m", "b", "e", "r", " ",
     "o", "f", " ", "e", "m", "p", "l", "o", "y", "e", "e", "s", "\n", "-",
     " ", "M", "a", "j", "o", "r", " ", "b", "u", "s", "i", "n", "e", "s",
     "s", " ", "s", "e", "g", "m", "e", "n", "t", "s", " ", "o", "r", " ",
     "d", "i", "v", "i", "s", "i", "o", "n", "s", "\n", "-", " ", "P", "r",
     "i", "m", "a", "r", "y", " ", "g", "e", "o", "g", "r", "a", "p", "h",
     "i", "c", " ", "m", "a", "r", "k", "e", "t", "s", "\n", "-", " ", "M",
     "a", "i", "n", " ", "p", "r", "o", "d", "u", "c", "t", "s", "/", "s",
     "e", "r", "v", "i", "c", "e", "s", "\n", "\n", "*", "*", "R", "i", "s",
     "k", " ", "F", "a", "c", "t", "o", "r", "s", ":", "*", "*", "\n", "-",
     " ", "L", "i", "s", "t", " ", "t", "h", "e", " ", "t", "o", "p", " ",
     "3", " ", "m", "o", "s", "t", " ", "s", "i", "g", "n", "i", "f", "i",
     "c", "a", "n", "t", " ", "r", "i", "s", "k", " ", "f", "a", "c", "t",
     "o", "r", "s", " ", "m", "e", "n", "t", "i", "o", "n", "e", "d", "\n",
     "\n", "F", "o", "r", "m", "a", "t", " ", "y", "o", "u", "r", " ", "r",
     "e", "s", "p", "o", "n", "s", "e", " ", "c", "l", "e", "a", "r", "l",
     "y", " ", "w", "i", "t", "h", " ", "h", "e", "a", "d", "e", "r", "s",
     " ", "a", "n", "d", " ", "b", "u", "l", "l", "e", "t", " ", "p", "o",
     "i", "n", "t", "s", ".", " ", "I", "f", " ", "a", "n", "y", " ", "i",
     "n", "f", "o", "r", "m", "a", "t", "i", "o", "n", " ", "i", "s", " ",
     "n", "o", "t", " ", "a", "v", "a", "i", "l", "a", "b", "l", "e", " ",
     "i", "n", " ", "t", "h", "e", " ", "d", "o", "c", "u", "m", "e", "n",
     "t", ",", " ", "n", "o", "t", "e", " ", "\"", "N", "o", "t", " ", "s",
     "p", "e", "c", "i", "f", "i", "e", "d", "\"", " ", "f", "o", "r", " ",
     "t", "h", "a", "t", " ", "i", "t", "e", "m", ".", "\n", "\n", "#", "#",
     " ", "E", "x", "a", "m", "p", "l", "e", " ", "O", "u", "t", "p", "u",
     "t", " ", "F", "o", "r", "m", "a", "t", ":", "\n", "\n", "{", "\n", " ",
     " ", " ", " ", "\"", "C", "o", "m", "p", "a", "n", "y", " ", "O", "v",
     "e", "r", "v", "i", "e", "w", "\"", ":", " ", "{", "\n", " ", " ", " ",
     " ", " ", " ", " ", " ", "\"", "N", "a", "m", "e", "\"", ":", " ", "\"",
     "[", "C", "o", "m", "p", "a", "n", "y", " ", "N", "a", "m", "e", "]",
     " ", "(", "[", "T", "i", "c", "k", "e", "r", "]", ")", "\"", ",", "\n",
     " ", " ", " ", " ", " ", " ", " ", " ", "\"", "B", "u", "s", "i", "n",
     "e", "s", "s", "\"", ":", " ", "\"", "[", "B", "r", "i", "e", "f", " ",
     "d", "e", "s", "c", "r", "i", "p", "t", "i", "o", "n", "]", "\"", ",",
     "\n", " ", " ", " ", " ", " ", " ", " ", " ", "\"", "I", "n", "d", "u",
     "s", "t", "r", "y", "\"", ":", " ", "\"", "[", "P", "r", "i", "m", "a",
     "r", "y", " ", "s", "e", "c", "t", "o", "r", "]", "\"", ",", "\n", " ",
     " ", " ", " ", " ", " ", " ", " ", "\"", "H", "e", "a", "d", "q", "u",
     "a", "r", "t", "e", "r", "s", "\"", ":", " ", "\"", "[", "C", "i", "t",
     "y", ",", " ", "S", "t", "a", "t", "e", "]", "\"", "\n", " ", " ", " ",
     " ", "}", ",", "\n", " ", " ", " ", " ", "\"", "F", "i", "n", "a", "n",
     "c", "i", "a", "l", " ", "H", "i", "g", "h", "l", "i", "g", "h", "t",
     "s", "\"", ":", " ", "{", "\n", " ", " ", " ", " ", " ", " ", " ", " ",
     "\"", "R", "e", "v", "e", "n", "u", "e", "\"", ":", " ", "\"", "$", "X",
     ".", "X", " ", "b", "i", "l", "l", "i", "o", "n", " ", "(", "c", "u",
     "r", "r", "e", "n", "t", " ", "y", "e", "a", "r", ")", ",", " ", "$",
     "X", ".", "X", " ", "b", "i", "l", "l", "i", "o", "n", " ", "(", "p",
     "r", "i", "o", "r", " ", "y", "e", "a", "r", ")", "\"", ",", "\n", " ",
     " ", " ", " ", " ", " ", " ", " ", "\"", "N", "e", "t", " ", "I", "n",
     "c", "o", "m", "e", "\"", ":", " ", "\"", "$", "X", ".", "X", " ", "b",
     "i", "l", "l", "i", "o", "n", " ", "(", "c", "u", "r", "r", "e", "n",
     "t", " ", "y", "e", "a", "r", ")", ",", " ", "$", "X", ".", "X", " ",
     "b", "i", "l", "l", "i", "o", "n", " ", "(", "p", "r", "i", "o", "r",
     " ", "y", "e", "a", "r", ")", "\"", ",", "\n", " ", " ", " ", " ", " ",
     " ", " ", " ", "\"", "T", "o", "t", "a", "l", " ", "A", "s", "s", "e",
     "t", "s", "\"", ":", " ", "\"", "$", "X", ".", "X", " ", "b", "i", "l",
     "l", "i", "o", "n", "\"", ",", "\n", " ", " ", " ", " ", " ", " ", " ",
     " ", "\"", "S", "h", "a", "r", "e", "h", "o", "l", "d", "e", "r", "s",
     "'", " ", "E", "q", "u", "i", "t", "y", "\"", ":", " ", "\"", "$", "X",
     ".", "X", " ", "b", "i", "l", "l", "i", "o", "n", "\"", "\n", " ", " ",
     " ", " ", "}", ",", "\n", " ", " ", " ", " ", "\"", "K", "e", "y", " ",
     "B", "u", "s", "i", "n", "e", "s", "s", " ", "I", "n", "f", "o", "r",
     "m", "a", "t", "i", "o", "n", "\"", ":", " ", "{", "\n", " ", " ", " ",
     " ", " ", " ", " ", " ", "\"", "N", "u", "m", "b", "e", "r", " ", "o",
     "f", " ", "E", "m", "p", "l", "o", "y", "e", "e", "s", "\"", ":", " ",
     "\"", "[", "N", "u", "m", "b", "e", "r", "]", "\"", ",", "\n", " ", " ",
     " ", " ", " ", " ", " ", " ", "\"", "M", "a", "j", "o", "r", " ", "S",
     "e", "g", "m", "e", "n", "t", "s", "\"", ":", " ", "\"", "[", "S", "e",
     "g", "m", "e", "n", "t", "s", "]", "\"", ",", "\n", " ", " ", " ", " ",
     " ", " ", " ", " ", "\"", "G", "e", "o", "g", "r", "a", "p", "h", "i",
     "c", " ", "M", "a", "r", "k", "e", "t", "s", "\"", ":", " ", "\"", "[",
     "M", "a", "r", "k", "e", "t", "s", "]", "\"", ",", "\n", " ", " ", " ",
     " ", " ", " ", " ", " ", "\"", "P", "r", "o", "d", "u", "c", "t", "s",
     "/", "S", "e", "r", "v", "i", "c", "e", "s", "\"", ":", " ", "\"", "[",
     "P", "r", "o", "d", "u", "c", "t", "s", "]", "\"", "\n", " ", " ", " ",
     " ", "}", ",", "\n", " ", " ", " ", " ", "\"", "R", "i", "s", "k", " ",
     "F", "a", "c", "t", "o", "r", "s", "\"", ":", " ", "[", "\n", " ", " ",
     " ", " ", " ", " ", " ", " ", "\"", "[", "R", "i", "s", "k", " ", "1",
     "]", "\"", ",", "\n", " ", " ", " ", " ", " ", " ", " ", " ", "\"", "[",
     "R", "i", "s", "k", " ", "2", "]", "\"", ",", "\n", " ", " ", " ", " ",
     " ", " ", " ", " ", "\"", "[", "R", "i", "s", "k", " ", "3", "]", "\"",
     "\n", " ", " ", " ", " ", "]", "\n", "}" >>

\* createNewsPrompt: the template before ${news}.
newsPromptHead ==
  <<
     "\n", "N", "E", "W", "S", ":", " " >>

\* createNewsPrompt: the template after ${news}.
newsPromptTail ==
  <<
     "\n", "\n", "E", "x", "t", "r", "a", "c", "t", " ", "a", "l", "l", " ",
     "s", "i", "g", "n", "i", "f", "i", "c", "a", "n", "t", " ", "c", "o",
     "m", "p", "a", "n", "y", " ", "n", "a", "m", "e", "s", " ", "m", "e",
     "n", "t", "i", "o", "n", "e", "d", " ", "i", "n", " ", "t", "h", "e",
     " ", "p", "r", "o", "v", "i", "d", "e", "d", " ", "n", "e", "w", "s",
     " ", "a", "r", "t", "i", "c", "l", "e", " ", "a", "n", "d", " ", "c",
     "l", "a", "s", "s", "i", "f", "y", " ", "t", "h", "e", "m", " ", "b",
     "y", " ", "t", "h", "e", "i", "r", " ", "r", "e", "l", "e", "v", "a",
     "n", "c", "e", " ", "t", "o", " ", "t", "h", "e", " ", "s", "t", "o",
     "r", "y", ".", "\n", "\n", "*", "*", "I", "n", "s", "t", "r", "u", "c",
     "t", "i", "o", "n", "s", ":", "*", "*", "\n", "-", " ", "I", "d", "e",
     "n", "t", "i", "f", "y", " ", "a", "l", "l", " ", "p", "u", "b", "l",
     "i", "c", "l", "y", " ", "t", "r", "a", "d", "e", "d", " ", "c", "o",
     "m", "p", "a", "n", "i", "e", "s", ",", " ", "m", "a", "j", "o", "r",
     " ", "p", "r", "i", "v", "a", "t", "e", " ", "c", "o", "m", "p", "a",
     "n", "i", "e", "s", ",", " ", "a", "n", "d", " ", "w", "e", "l", "l",
     "-", "k", "n", "o", "w", "n", " ", "o", "r", "g", "a", "n", "i", "z",
     "a", "t", "i", "o", "n", "s", "\n", "-", " ", "I", "n", "c", "l", "u",
     "d", "e", " ", "t", "i", "c", "k", "e", "r", " ", "s", "y", "m", "b",
     "o", "l", "s", " ", "w", "h", "e", "n", " ", "a", "v", "a", "i", "l",
     "a", "b", "l", "e", " ", "o", "r", " ", "e", "a", "s", "i", "l", "y",
     " ", "i", "d", "e", "n", "t", "i", "f", "i", "a", "b", "l", "e", "\n",
     "-", " ", "C", "a", "t", "e", "g", "o", "r", "i", "z", "e", " ", "c",
     "o", "m", "p", "a", "n", "i", "e", "s", " ", "b", "y", " ", "t", "h",
     "e", "i", "r", " ", "r", "o", "l", "e", " ", "i", "n", " ", "t", "h",
     "e", " ", "s", "t", "o", "r", "y", "\n", "-", " ", "E", "x", "c", "l",
     "u", "d", "e", " ", "g", "e", "n", "e", "r", "i", "c", " ", "r", "e",
     "f", "e", "r", "e", "n", "c", "e", "s", " ", "(", "e", ".", "g", ".",
     ",", " ", "\"", "t", "e", "c", "h", " ", "c", "o", "m", "p", "a", "n",
     "i", "e", "s", "\"", " ", "w", "i", "t", "h", "o", "u", "t", " ", "s",
     "p", "e", "c", "i", "f", "i", "c", " ", "n", "a", "m", "e", "s", ")",
     "\n", "-", " ", "I", "n", "c", "l", "u", "d", "e", " ", "s", "u", "b",
     "s", "i", "d", "i", "a", "r", "i", "e", "s", " ", "a", "n", "d", " ",
     "b", "r", "a", "n", "d", "s", " ", "i", "f", " ", "t", "h", "e", "y",
     " ", "a", "r", "e", " ", "s", "i", "g", "n", "i", "f", "i", "c", "a",
     "n", "t", " ", "t", "o", " ", "t", "h", "e", " ", "s", "t", "o", "r",
     "y", "\n", "\n", "*", "*", "O", "u", "t", "p", "u", "t", " ", "F", "o",
     "r", "m", "a", "t", ":", "*", "*", "\n", "R", "e", "t", "u", "r", "n",
     " ", "a", " ", "J", "S", "O", "N", " ", "o", "b", "j", "e", "c", "t",
     " ", "w", "i", "t", "h", " ", "t", "h", "e", " ", "f", "o", "l", "l",
     "o", "w", "i", "n", "g", " ", "s", "t", "r", "u", "c", "t", "u", "r",
     "e", ":", "\n", "\n", "{", "\n", " ", " ", "\"", "p", "r", "i", "m", "a",
     "r", "y", "_", "c", "o", "m", "p", "a", "n", "i", "e", "s", "\"", ":",
     " ", "[", "\n", " ", " ", " ", " ", "{", "\n", " ", " ", " ", " ", " ",
     " ", "\"", "n", "a", "m", "e", "\"", ":", " ", "\"", "C", "o", "m", "p",
     "a", "n", "y", " ", "N", "a", "m", "e", "\"", ",", "\n", " ", " ", " ",
     " ", " ", " ", "\"", "t", "i", "c", "k", "e", "r", "\"", ":", " ", "\"",
     "T", "I", "C", "K", "\"", " ", "|", " ", "n", "u", "l", "l", ",", "\n",
     " ", " ", " ", " ", " ", " ", "\"", "r", "o", "l", "e", "\"", ":", " ",
     "\"", "B", "r", "i", "e", "f", " ", "d", "e", "s", "c", "r", "i", "p",
     "t", "i", "o", "n", " ", "o", "f", " ", "t", "h", "e", "i", "r", " ",
     "r", "o", "l", "e", " ", "i", "n", " ", "t", "h", "e", " ", "s", "t",
     "o", "r", "y", "\"", "\n", " ", " ", " ", " ", "}", "\n", " ", " ", "]",
     ",", "\n", " ", " ", "\"", "s", "e", "c", "o", "n", "d", "a", "r", "y",
     "_", "c", "o", "m", "p", "a", "n", "i", "e", "s", "\"", ":", " ", "[",
     "\n", " ", " ", " ", " ", "{", "\n", " ", " ", " ", " ", " ", " ", "\"",
     "n", "a", "m", "e", "\"", ":", " ", "\"", "C", "o", "m", "p", "a", "n",
     "y", " ", "N", "a", "m", "e", "\"", ",", " ", "\n", " ", " ", " ", " ",
     " ", " ", "\"", "t", "i", "c", "k", "e", "r", "\"", ":", " ", "\"", "T",
     "I", "C", "K", "\"", " ", "|", " ", "n", "u", "l", "l", ",", "\n", " ",
     " ", " ", " ", " ", " ", "\"", "r", "o", "l", "e", "\"", ":", " ", "\"",
     "B", "r", "i", "e", "f", " ", "d", "e", "s", "c", "r", "i", "p", "t",
     "i", "o", "n", " ", "o", "f", " ", "t", "h", "e", "i", "r", " ", "r",
     "o", "l", "e", " ", "i", "n", " ", "t", "h", "e", " ", "s", "t", "o",
     "r", "y", "\"", "\n", " ", " ", " ", " ", "}", "\n", " ", " ", "]", ",",
     "\n", " ", " ", "\"", "m", "e", "n", "t", "i", "o", "n", "e", "d", "_",
     "c", "o", "m", "p", "a", "n", "i", "e", "s", "\"", ":", " ", "[", "\n",
     " ", " ", " ", " ", "{", "\n", " ", " ", " ", " ", " ", " ", "\"", "n",
     "a", "m", "e", "\"", ":", " ", "\"", "C", "o", "m", "p", "a", "n", "y",
     " ", "N", "a", "m", "e", "\"", ",", "\n", " ", " ", " ", " ", " ", " ",
     "\"", "t", "i", "c", "k", "e", "r", "\"", ":", " ", "\"", "T", "I", "C",
     "K", "\"", " ", "|", " ", "n", "u", "l", "l", ",", "\n", " ", " ", " ",
     " ", " ", " ", "\"", "c", "o", "n", "t", "e", "x", "t", "\"", ":", " ",
     "\"", "B", "r", "i", "e", "f", " ", "c", "o", "n", "t", "e", "x", "t",
     " ", "o", "f", " ", "m", "e", "n", "t", "i", "o", "n", "\"", "\n", " ",
     " ", " ", " ", "}", "\n", " ", " ", "]", "\n", "}", "\n", "\n", "*", "*",
     "C", "a", "t", "e", "g", "o", "r", "i", "e", "s", ":", "*", "*", "\n",
     "-", " ", "*", "*", "p", "r", "i", "m", "a", "r", "y", "_", "c", "o",
     "m", "p", "a", "n", "i", "e", "s", "*", "*", ":", " ", "C", "o", "m",
     "p", "a", "n", "i", "e", "s", " ", "t", "h", "a", "t", " ", "a", "r",
     "e", " ", "t", "h", "e", " ", "m", "a", "i", "n", " ", "f", "o", "c",
     "u", "s", " ", "o", "f", " ", "t", "h", "e", " ", "a", "r", "t", "i",
     "c", "l", "e", "\n", "-", " ", "*", "*", "s", "e", "c", "o", "n", "d",
     "a", "r", "y", "_", "c", "o", "m", "p", "a", "n", "i", "e", "s", "*",
     "*", ":", " ", "C", "o", "m", "p", "a", "n", "i", "e", "s", " ", "w",
     "i", "t", "h", " ", "s", "i", "g", "n", "i", "f", "i", "c", "a", "n",
     "t", " ", "i", "n", "v", "o", "l", "v", "e", "m", "e", "n", "t", " ",
     "b", "u", "t", " ", "n", "o", "t", " ", "t", "h", "e", " ", "m", "a",
     "i", "n", " ", "f", "o", "c", "u", "s", " ", " ", "\n", "-", " ", "*",
     "*", "m", "e", "n", "t", "i", "o", "n", "e", "d", "_", "c", "o", "m",
     "p", "a", "n", "i", "e", "s", "*", "*", ":", " ", "C", "o", "m", "p",
     "a", "n", "i", "e", "s", " ", "b", "r", "i", "e", "f", "l", "y", " ",
     "r", "e", "f", "e", "r", "e", "n", "c", "e", "d", " ", "o", "r", " ",
     "u", "s", "e", "d", " ", "f", "o", "r", " ", "c", "o", "m", "p", "a",
     "r", "i", "s", "o", "n", "\n", "\n", "*", "*", "E", "x", "a", "m", "p",
     "l", "e", " ", "O", "u", "t", "p", "u", "t", ":", "*", "*", "\n", "{",
     "\n", " ", " ", "\"", "p", "r", "i", "m", "a", "r", "y", "_", "c", "o",
     "m", "p", "a", "n", "i", "e", "s", "\"", ":", " ", "[", "\n", " ", " ",
     " ", " ", "{", "\n", " ", " ", " ", " ", " ", " ", "\"", "n", "a", "m",
     "e", "\"", ":", " ", "\"", "A", "p", "p", "l", "e", " ", "I", "n", "c",
     ".", "\"", ",", "\n", " ", " ", " ", " ", " ", " ", "\"", "t", "i", "c",
     "k", "e", "r", "\"", ":", " ", "\"", "A", "A", "P", "L", "\"", ",", "\n",
     " ", " ", " ", " ", " ", " ", "\"", "r", "o", "l", "e", "\"", ":", " ",
     "\"", "A", "n", "n", "o", "u", "n", "c", "i", "n", "g", " ", "n", "e",
     "w", " ", "p", "r", "o", "d", "u", "c", "t", " ", "l", "a", "u", "n",
     "c", "h", " ", "a", "n", "d", " ", "q", "u", "a", "r", "t", "e", "r",
     "l", "y", " ", "e", "a", "r", "n", "i", "n", "g", "s", "\"", "\n", " ",
     " ", " ", " ", "}", "\n", " ", " ", "]", ",", "\n", " ", " ", "\"", "s",
     "e", "c", "o", "n", "d", "a", "r", "y", "_", "c", "o", "m", "p", "a",
     "n", "i", "e", "s", "\"", ":", " ", "[", "\n", " ", " ", " ", " ", "{",
     "\n", " ", " ", " ", " ", " ", " ", "\"", "n", "a", "m", "e", "\"", ":",
     " ", "\"", "S", "a", "m", "s", "u", "n", "g", " ", "E", "l", "e", "c",
     "t", "r", "o", "n", "i", "c", "s", "\"", ",", "\n", " ", " ", " ", " ",
     " ", " ", "\"", "t", "i", "c", "k", "e", "r", "\"", ":", " ", "\"", "0",
     "0", "5", "9", "3", "0", ".", "K", "S", "\"", ",", " ", "\n", " ", " ",
     " ", " ", " ", " ", "\"", "r", "o", "l", "e", "\"", ":", " ", "\"", "M",
     "a", "i", "n", " ", "c", "o", "m", "p", "e", "t", "i", "t", "o", "r",
     " ", "m", "e", "n", "t", "i", "o", "n", "e", "d", " ", "i", "n", " ",
     "m", "a", "r", "k", "e", "t", " ", "a", "n", "a", "l", "y", "s", "i",
     "s", "\"", "\n", " ", " ", " ", " ", "}", "\n", " ", " ", "]", ",", "\n",
     " ", " ", "\"", "m", "e", "n", "t", "i", "o", "n", "e", "d", "_", "c",
     "o", "m", "p", "a", "n", "i", "e", "s", "\"", ":", " ", "[", "\n", " ",
     " ", " ", " ", "{", "\n", " ", " ", " ", " ", " ", " ", "\"", "n", "a",
     "m", "e", "\"", ":", " ", "\"", "M", "i", "c", "r", "o", "s", "o", "f",
     "t", " ", "C", "o", "r", "p", "o", "r", "a", "t", "i", "o", "n", "\"",
     ",", "\n", " ", " ", " ", " ", " ", " ", "\"", "t", "i", "c", "k", "e",
     "r", "\"", ":", " ", "\"", "M", "S", "F", "T", "\"", ",", "\n", " ", " ",
     " ", " ", " ", " ", "\"", "c", "o", "n", "t", "e", "x", "t", "\"", ":",
     " ", "\"", "R", "e", "f", "e", "r", "e", "n", "c", "e", "d", " ", "f",
     "o", "r", " ", "m", "a", "r", "k", "e", "t", " ", "c", "a", "p", " ",
     "c", "o", "m", "p", "a", "r", "i", "s", "o", "n", "\"", "\n", " ", " ",
     " ", " ", "}", "\n", " ", " ", "]", "\n", "}", "\n" >>

createNewsPrompt(news) == newsPromptHead \o news \o newsPromptTail

\* detection.test.ts: sampleNewsText
sampleNewsText ==
  <<
     "A", "p", "p", "l", "e", " ", "a", "n", "n", "o", "u", "n", "c", "e",
     "s", " ", "n", "e", "w", " ", "i", "P", "h", "o", "n", "e", " ", "w",
     "i", "t", "h", " ", "a", "d", "v", "a", "n", "c", "e", "d", " ", "A",
     "I", " ", "f", "e", "a", "t", "u", "r", "e", "s" >>

tenKPrompt1 == create10kPrompt

tenKPrompt2 == create10kPrompt

newsPrompt == createNewsPrompt(sampleNewsText)

\* The calls detection.test.ts makes.
TestCalls ==
  { << tenKPrompt1, tenKPrompt2 >>, << tenKPrompt1, newsPrompt >>,
    << tenKPrompt2, newsPrompt >>, << tenKPrompt1, tenKPrompt1 >>,
    << << >>, tenKPrompt1 >>, << tenKPrompt1, << >> >>, << << >>, << >> >> }

(***************************************************************************)
(* The prompts a call is made with.                                        *)
(***************************************************************************)
\* An argument that is undefined or null.
Absent == << "undefined" >>

\* The fragments the prompts are made of.
Pieces ==
  << << "c", "a", "t" >>,
     << " ", "d", "o", "g" >>,
     << " ", "t", "h", "e" >>,
     << " ", "a", "b" >>,
     << " ", "C", "a", "t" >>,
     << "_" >>,
     << "\n" >>,
     << "-" >>,
     << "*", "*" >>,
     << "#", "#" >>,
     << "{" >>,
     << "}" >>,
     << "[" >>,
     << "]" >>,
     << "E", "x", "t", "r", "a", "c", "t" >>,
     << " ", "f", "o", "r", "m", "a", "t" >>,
     << " ", "d", "o", "g", " ", "e", "m", "u" >> >>

\* The number of fragments of a prompt.
MaxPieces == 2

TextOf(ix) ==
  ConcatRange([i \in 1..Len(ix) |-> Pieces[ix[i]]], 1, Len(ix))

Texts ==
  {TextOf(ix) : ix \in UNION {[1..n -> 1..Len(Pieces)] : n \in 0..MaxPieces}}

\* The prompts every text is also scored against.
Probes ==
  { << >>,
    Absent,
    << "c", "a", "t", " ", "d", "o", "g" >>,
    << "d", "o", "g", " ", "d", "o", "g", " ", "c", "a", "t", " ", "e", "m", "u" >>,
    << "*", "*", "a", "*", "*", " ", "[", "b", "]", "\n", "-", " ", "{", "}" >>,
    << "#", "#", " ", "T", "e", "m", "p", "l", "a", "t", "e", " ", "c", "a", "t" >> }

(***************************************************************************)
(* The values of the relay: a JavaScript value is a record with its type.  *)
(***************************************************************************)
Undefined == [type |-> "undefined"]

Str(s) == [type |-> "string", value |-> s]

\* A number, by its decimal digits.
Num(digits) == [type |-> "number", value |-> digits]

Arr(items) == [type |-> "array", items |-> items]

\* An object, by the function from its own property names to their values.
Obj(fields) == [type |-> "object", fields |-> fields]

\* obj.name, for an obj that is not undefined.
Get(obj, name) ==
  IF obj.type = "object" /\ name \in DOMAIN obj.fields
    THEN obj.fields[name]
    ELSE Undefined

\* The conversion to boolean of a condition, of || and of ?: .
Truthy(v) ==
  CASE v.type = "undefined" -> FALSE
    [] v.type = "string" -> v.value # ""
    [] v.type = "number" -> v.value # "0"
    [] v.type = "null" -> FALSE
    [] OTHER -> TRUE

\* a || b
Or(a, b) == IF Truthy(a) THEN a ELSE b

\* JSON.stringify(v): a non-empty string, the JSON text of v.
JSONstringify(v) == [type |-> "string", value |-> "json", of |-> v]

(***************************************************************************)
(* The state: one call of createSimilarityScoreBetweenPrompts(prompt1,     *)
(* prompt2), and one request in the hands of completionsHandler or         *)
(* chatCompletionsHandler.                                                 *)
(***************************************************************************)
VARIABLES prompt1, prompt2, pc, normalizedPrompt1, normalizedPrompt2,
          jaccardSimilarity, cosineSimilarity, structuralSimilarity,
          result, called, earlier

VARIABLES endpoint, workflowId, config, headers, requestBody, finalWorkflowId, forwardBody,
          requestMessages, timeoutId, upstreamRequest, response, error,
          sent, dataFiles, handlerAt, today, elapsed, effects

VARIABLES mappingsFile, env, pendingListens, servers, serverErrors, serverAt

VARIABLES comparison, similarity

legacyVars == << comparison, similarity >>

serverVars == << mappingsFile, env, pendingListens, servers, serverErrors,
                 serverAt >>

engineVars == << prompt1, prompt2, pc, normalizedPrompt1, normalizedPrompt2,
                 jaccardSimilarity, cosineSimilarity, structuralSimilarity,
                 result, called, earlier >>

relayVars == << endpoint, workflowId, config, headers, requestBody, finalWorkflowId,
                forwardBody, requestMessages, timeoutId, upstreamRequest,
                response, error, sent, dataFiles, handlerAt, today, elapsed,
                effects >>

vars == << engineVars, relayVars, serverVars, legacyVars >>

\* The value of a constant or of a return value not yet assigned.
Unassigned == [n |-> 0, d |-> 0 - 1]

\* A test for the empty string alone.
EmptyString(prompt) == prompt = << >>

\* A test for an absent argument alone.
AbsentAlone(prompt) == prompt = Absent

\* !prompt
Falsy(prompt) == prompt = Absent \/ prompt = << >>

\* A promise that is not settled.
Pending == [state |-> "pending"]

\* Neither comparePrompts nor findSimilarityScore has been called.
LegacyIdle ==
  /\ comparison = Pending
  /\ similarity = Pending

\* The port-mapping server is not being started.
ServerIdle ==
  /\ mappingsFile = [exists |-> FALSE]
  /\ env = << >>
  /\ pendingListens = {}
  /\ servers = {}
  /\ serverErrors = {}
  /\ serverAt = "idle"

\* No request is in the hands of a handler.
RelayIdle ==
  /\ endpoint = ""
  /\ workflowId = ""
  /\ config = [OPENAI_API_HOST |-> "", API_KEY |-> ""]
  /\ headers = << >>
  /\ requestBody = Undefined
  /\ finalWorkflowId = Undefined
  /\ forwardBody = Undefined
  /\ requestMessages = Undefined
  /\ timeoutId = "unset"
  /\ upstreamRequest = Undefined
  /\ response = Undefined
  /\ error = Undefined
  /\ sent = << >>
  /\ dataFiles = << >>
  /\ handlerAt = "idle"
  /\ today = ""
  /\ elapsed = 0
  /\ effects = << >>

Init ==
  /\ RelayIdle
  /\ ServerIdle
  /\ LegacyIdle
  /\ earlier = << >>
  /\ \/ \E text \in Texts :
          \E other \in Probes \cup {text} :
            \/ prompt1 = text /\ prompt2 = other
            \/ prompt1 = other /\ prompt2 = text
     \/ \E call \in TestCalls : prompt1 = call[1] /\ prompt2 = call[2]
  /\ pc = "guard"
  /\ normalizedPrompt1 = << >>
  /\ normalizedPrompt2 = << >>
  /\ jaccardSimilarity = Unassigned
  /\ cosineSimilarity = [num |-> 0, rad |-> 0]
  /\ structuralSimilarity = Unassigned
  /\ result = Unassigned
  /\ called = << >>

\* if (!prompt1 || !prompt2) return 0;
ReturnZero ==
  /\ UNCHANGED << relayVars, serverVars, legacyVars, earlier >>
  /\ pc = "guard"
  /\ Falsy(prompt1) \/ Falsy(prompt2)
  /\ result' = Zero
  /\ pc' = "done"
  /\ UNCHANGED << prompt1, prompt2, normalizedPrompt1, normalizedPrompt2,
                  jaccardSimilarity, cosineSimilarity, structuralSimilarity,
                  called >>

Normalize ==
  /\ UNCHANGED << relayVars, serverVars, legacyVars, earlier >>
  /\ pc = "guard"
  /\ ~(Falsy(prompt1) \/ Falsy(prompt2))
  /\ normalizedPrompt1' = normalizePrompt(prompt1)
  /\ normalizedPrompt2' = normalizePrompt(prompt2)
  /\ called' = called \o << "normalizePrompt", "normalizePrompt" >>
  /\ pc' = "jaccard"
  /\ UNCHANGED << prompt1, prompt2, jaccardSimilarity, cosineSimilarity,
                  structuralSimilarity, result >>

Jaccard ==
  /\ UNCHANGED << relayVars, serverVars, legacyVars, earlier >>
  /\ pc = "jaccard"
  /\ jaccardSimilarity' =
       calculateJaccardSimilarity(normalizedPrompt1, normalizedPrompt2)
  /\ called' = Append(called, "calculateJaccardSimilarity")
  /\ pc' = "cosine"
  /\ UNCHANGED << prompt1, prompt2, normalizedPrompt1, normalizedPrompt2,
                  cosineSimilarity, structuralSimilarity, result >>

Cosine ==
  /\ UNCHANGED << relayVars, serverVars, legacyVars, earlier >>
  /\ pc = "cosine"
  /\ cosineSimilarity' =
       calculateCosineSimilarity(normalizedPrompt1, normalizedPrompt2)
  /\ called' = Append(called, "calculateCosineSimilarity")
  /\ pc' = "structural"
  /\ UNCHANGED << prompt1, prompt2, normalizedPrompt1, normalizedPrompt2,
                  jaccardSimilarity, structuralSimilarity, result >>

Structural ==
  /\ UNCHANGED << relayVars, serverVars, legacyVars, earlier >>
  /\ pc = "structural"
  /\ structuralSimilarity' = calculateStructuralSimilarity(prompt1, prompt2)
  /\ called' = Append(called, "calculateStructuralSimilarity")
  /\ pc' = "combine"
  /\ UNCHANGED << prompt1, prompt2, normalizedPrompt1, normalizedPrompt2,
                  jaccardSimilarity, cosineSimilarity, result >>

Combine ==
  /\ UNCHANGED << relayVars, serverVars, legacyVars, earlier >>
  /\ pc = "combine"
  /\ result' = RoundedScore(jaccardSimilarity, cosineSimilarity,
                            structuralSimilarity)
  /\ pc' = "done"
  /\ UNCHANGED << prompt1, prompt2, normalizedPrompt1, normalizedPrompt2,
                  jaccardSimilarity, cosineSimilarity, structuralSimilarity,
                  called >>

Next ==
  \/ ReturnZero
  \/ Normalize
  \/ Jaccard
  \/ Cosine
  \/ Structural
  \/ Combine

Spec == Init /\ [][Next]_vars

\* No call is being made.
EngineIdle ==
  /\ prompt1 = << >>
  /\ prompt2 = << >>
  /\ pc = "idle"
  /\ normalizedPrompt1 = << >>
  /\ normalizedPrompt2 = << >>
  /\ jaccardSimilarity = Unassigned
  /\ cosineSimilarity = [num |-> 0, rad |-> 0]
  /\ structuralSimilarity = Unassigned
  /\ result = Unassigned
  /\ called = << >>
  /\ earlier = << >>

\* The whole call, as a function of its arguments.
createSimilarityScoreBetweenPrompts(p1, p2) ==
  IF Falsy(p1) \/ Falsy(p2) THEN Zero
  ELSE RoundedScore(
         calculateJaccardSimilarity(normalizePrompt(p1), normalizePrompt(p2)),
         calculateCosineSimilarity(normalizePrompt(p1), normalizePrompt(p2)),
         calculateStructuralSimilarity(p1, p2))

(***************************************************************************)
(* The relay: completionsHandler and chatCompletionsHandler.               *)
(***************************************************************************)
Null == [type |-> "null"]

\* What response.json() cannot parse.
NotJson == [type |-> "text"]

completionsPath == "/v1/completions"

chatCompletionsPath == "/v1/chat/completions"

\* The workflow ids of the port mappings.
ConfiguredWorkflowIds == {"summarize", "default"}

Configs ==
  { [OPENAI_API_HOST |-> "http://upstream", API_KEY |-> key] :
      key \in {"", "sk-upstream"} }

\* The headers of a request, by their lower-case names.
RequestHeaders ==
  [h \in {"host", "content-length", "authorization"} |->
     CASE h = "host" -> "relay"
       [] h = "content-length" -> "42"
       [] OTHER -> "Bearer client"]

userMessage == Obj([role |-> Str("user"), content |-> Str("Say hi")])

\* The bodies of a request without its workflow_id.
PlainBodies ==
  { [model |-> Str("m"), prompt |-> Str("Say hi")],
    [prompt |-> Str("Say hi")],
    [model |-> Str("m")],
    [model |-> Str("m"), messages |-> Arr(<< userMessage >>)],
    << >> }

\* The workflow_id values of a request body.
BodyWorkflowIds == {Str(""), Str("custom"), Num("7")}

WithWorkflowId(fields, id) ==
  [f \in DOMAIN fields \cup {"workflow_id"} |->
     IF f = "workflow_id" THEN id ELSE fields[f]]

\* req.body: undefined when no body was parsed.
RequestBodies ==
  {Undefined} \cup {Obj(fields) : fields \in PlainBodies}
    \cup {Obj(WithWorkflowId(fields, id)) :
            fields \in PlainBodies, id \in BodyWorkflowIds}

\* The JSON bodies an upstream answers with.
UpstreamJson ==
  { Obj([choices |-> Arr(<< Obj([text |-> Str("Hi")]) >>)]),
    Obj([choices |->
           Arr(<< Obj([message |-> Obj([content |-> Str("Hi")])]) >>)]),
    Obj([error |-> Str("upstream failed")]),
    Null }

UpstreamResponses ==
  [status : {200, 400, 503}, json : UpstreamJson \cup {NotJson}]

\* Every status taken for ok.
OkWhateverStatus(resp) == resp.status \in 100..599

\* response.ok
Ok(resp) == resp.status \in 200..299

\* The values new Date() formats to.
Dates == {"31-12-2025", "01-01-2026"}

\* The day before midnight and the day after it.
FirstDay == "31-12-2025"

SecondDay == "01-01-2026"

\* const finalWorkflowId = requestBody.workflow_id || workflowId;
FinalWorkflowId(body, configured) ==
  Or(Get(body, "workflow_id"), Str(configured))

\* The copy of the body without the delete.
CopyOfBody(body) == Obj(body.fields)

\* const forwardBody = { ...requestBody }; delete forwardBody.workflow_id;
ForwardBody(body) ==
  Obj([f \in DOMAIN body.fields \ {"workflow_id"} |-> body.fields[f]])

prepareForwardHeaders(reqHeaders, cfg) ==
  LET kept == DOMAIN reqHeaders \ {"host", "content-length"}
      withKey == IF cfg.API_KEY # "" THEN {"Authorization"} ELSE {}
  IN  [h \in kept \cup withKey |->
         IF h = "Authorization" THEN "Bearer " \o cfg.API_KEY
         ELSE reqHeaders[h]]

\* The logger that files by workflow alone, without the folder of the day.
logRequestResponseUndated(prompt, resp, path, id, priorMessages, timestamp, dateFolder, fsWorks) ==
  IF resp.type \in {"null", "undefined"} \/ ~fsWorks
       \/ (Truthy(id) /\ id.type # "string")
    THEN << >>
    ELSE << [file |-> << "data", id.value, "data.jsonl" >>,
             line |->
               JSONstringify(
                 Obj([messages |-> Arr(<< >>),
                      timestamp |-> Str(timestamp),
                      endpoint |-> Str(path),
                      model |-> Or(Get(prompt, "model"), Str("unknown")),
                      workflow_id |-> Or(id, Str("default"))]))] >>

\* A logRequestResponse that leaves the beginning of a line behind when
\* saving throws.
logRequestResponseTorn(prompt, resp, path, id, priorMessages, timestamp, dateFolder, fsWorks) ==
  LET messages ==
        IF Truthy(priorMessages) /\ priorMessages.type = "array"
          THEN priorMessages.items
          ELSE << Obj([role |-> Str("user"),
                       content |-> Or(Get(prompt, "prompt"),
                                      JSONstringify(prompt))]) >>
      choices == Get(resp, "choices")
      first == IF choices.type = "array" /\ Len(choices.items) > 0
                 THEN choices.items[1] ELSE Undefined
      assistantContent ==
        Or(Or(Get(first, "text"), Get(Get(first, "message"), "content")),
           JSONstringify(resp))
      chatMLEntry ==
        Obj([messages |->
               Arr(Append(messages, Obj([role |-> Str("assistant"),
                                         content |-> assistantContent]))),
             timestamp |-> Str(timestamp),
             endpoint |-> Str(path),
             model |-> Or(Get(prompt, "model"), Str("unknown")),
             workflow_id |-> Or(id, Str("default"))])
      workflowDir ==
        IF Truthy(id) THEN << "data", id.value >> ELSE << "data", "default" >>
      throws ==
        \/ resp.type \in {"null", "undefined"}
        \/ Truthy(id) /\ id.type # "string"
        \/ ~fsWorks
  IN  IF throws
        THEN << [file |-> << "data", "default", dateFolder, "data.jsonl" >>,
                 line |-> Str("{")] >>
      ELSE << [file |-> workflowDir \o << dateFolder, "data.jsonl" >>,
               line |-> JSONstringify(chatMLEntry)] >>

\* The lines logRequestResponse appends to the data files: none when it
\* throws, which it catches itself.
logRequestResponse(prompt, resp, path, id, priorMessages, timestamp, dateFolder, fsWorks) ==
  LET messages ==
        IF Truthy(priorMessages) /\ priorMessages.type = "array"
          THEN priorMessages.items
          ELSE << Obj([role |-> Str("user"),
                       content |-> Or(Get(prompt, "prompt"),
                                      JSONstringify(prompt))]) >>
      choices == Get(resp, "choices")
      first == IF choices.type = "array" /\ Len(choices.items) > 0
                 THEN choices.items[1] ELSE Undefined
      assistantContent ==
        Or(Or(Get(first, "text"), Get(Get(first, "message"), "content")),
           JSONstringify(resp))
      chatMLEntry ==
        Obj([messages |->
               Arr(Append(messages, Obj([role |-> Str("assistant"),
                                         content |-> assistantContent]))),
             timestamp |-> Str(timestamp),
             endpoint |-> Str(path),
             model |-> Or(Get(prompt, "model"), Str("unknown")),
             workflow_id |-> Or(id, Str("default"))])
      workflowDir ==
        IF Truthy(id) THEN << "data", id.value >> ELSE << "data", "default" >>
      throws ==
        \/ resp.type \in {"null", "undefined"}
        \/ Truthy(id) /\ id.type # "string"
        \/ ~fsWorks
  IN  IF throws THEN << >>
      ELSE << [file |-> workflowDir \o << dateFolder, "data.jsonl" >>,
               line |-> JSONstringify(chatMLEntry)] >>

\* Every error answered as an internal error.
InternalErrorOnly(err) ==
  [status |-> 500,
   body |-> Obj([error |-> Str("Internal proxy server error"),
                 message |-> Str(err.message)])]

\* The response handleProxyError sends.
handleProxyError(err) ==
  IF err.name = "AbortError"
    THEN [status |-> 408,
          body |-> Obj([error |-> Str("Request timeout"),
                        message |->
                          Str("Request timed out after 60 seconds")])]
    ELSE [status |-> 500,
          body |-> Obj([error |-> Str("Internal proxy server error"),
                        message |-> Str(err.message)])]

\* A request has reached its handler.
RequestArrives ==
  /\ EngineIdle
  /\ ServerIdle
  /\ LegacyIdle
  /\ endpoint \in {completionsPath, chatCompletionsPath}
  /\ workflowId \in ConfiguredWorkflowIds
  /\ config \in Configs
  /\ headers = RequestHeaders
  /\ requestBody \in RequestBodies
  /\ finalWorkflowId = Undefined
  /\ forwardBody = Undefined
  /\ requestMessages = Undefined
  /\ timeoutId = "unset"
  /\ upstreamRequest = Undefined
  /\ response = Undefined
  /\ error = Undefined
  /\ sent = << >>
  /\ handlerAt = "start"
  /\ today \in Dates
  /\ elapsed = 0
  /\ effects = << >>

\* The first request after the data directory was created.
RelayInit ==
  /\ RequestArrives
  /\ dataFiles = << >>

\* The handler up to its await of forwardToOpenAI, which sets the timer and
\* starts the fetch; reading a property of an undefined body throws.
Forward ==
  /\ UNCHANGED << today, elapsed, effects >>
  /\ handlerAt = "start"
  /\ IF requestBody.type = "undefined"
       THEN /\ error' = [name |-> "TypeError",
                         message |-> "Cannot read properties of undefined"]
            /\ handlerAt' = "catch"
            /\ UNCHANGED << finalWorkflowId, forwardBody, requestMessages,
                            timeoutId, upstreamRequest >>
       ELSE /\ finalWorkflowId' = FinalWorkflowId(requestBody, workflowId)
            /\ requestMessages' =
                 IF endpoint = chatCompletionsPath
                   THEN Or(Get(requestBody, "messages"), Arr(<< >>))
                   ELSE Undefined
            /\ forwardBody' = ForwardBody(requestBody)
            /\ timeoutId' = "set"
            /\ upstreamRequest' =
                 [url |-> config.OPENAI_API_HOST \o endpoint,
                  headers |-> prepareForwardHeaders(headers, config),
                  body |-> JSONstringify(ForwardBody(requestBody))]
            /\ handlerAt' = "fetch"
            /\ UNCHANGED error
  /\ UNCHANGED << endpoint, workflowId, config, headers, requestBody,
                  response, sent, dataFiles >>
  /\ UNCHANGED << engineVars, serverVars, legacyVars >>

\* The fetch resolves with the upstream's status line and headers.
FetchResolves ==
  /\ UNCHANGED << today, elapsed, effects >>
  /\ handlerAt = "fetch"
  /\ timeoutId = "set"
  /\ \E resp \in UpstreamResponses : response' = resp
  /\ timeoutId' = "cleared"
  /\ handlerAt' = "json"
  /\ UNCHANGED << endpoint, workflowId, config, headers, requestBody,
                  finalWorkflowId, forwardBody, requestMessages,
                  upstreamRequest, error, sent, dataFiles >>
  /\ UNCHANGED << engineVars, serverVars, legacyVars >>

\* The timer fires and aborts the fetch, which rejects.
TimeoutFires ==
  /\ UNCHANGED << today, elapsed, effects >>
  /\ handlerAt = "fetch"
  /\ timeoutId = "set"
  /\ timeoutId' = "fired"
  /\ error' = [name |-> "AbortError", message |-> "This operation was aborted"]
  /\ handlerAt' = "catch"
  /\ UNCHANGED << endpoint, workflowId, config, headers, requestBody,
                  finalWorkflowId, forwardBody, requestMessages,
                  upstreamRequest, response, sent, dataFiles >>
  /\ UNCHANGED << engineVars, serverVars, legacyVars >>

\* The fetch rejects: the upstream cannot be reached.
FetchRejects ==
  /\ UNCHANGED << today, elapsed, effects >>
  /\ handlerAt = "fetch"
  /\ timeoutId = "set"
  /\ timeoutId' = "cleared"
  /\ error' = [name |-> "TypeError", message |-> "fetch failed"]
  /\ handlerAt' = "catch"
  /\ UNCHANGED << endpoint, workflowId, config, headers, requestBody,
                  finalWorkflowId, forwardBody, requestMessages,
                  upstreamRequest, response, sent, dataFiles >>
  /\ UNCHANGED << engineVars, serverVars, legacyVars >>

\* response.json() resolves: an upstream that is not ok is answered with
\* its status and body, one that is ok is logged and answered.
JsonResolves ==
  /\ UNCHANGED << today, elapsed >>
  /\ handlerAt = "json"
  /\ response.json # NotJson
  /\ IF Ok(response)
       THEN /\ \E timestamp \in Dates, fsWorks \in BOOLEAN :
                 dataFiles' = dataFiles \o
                   logRequestResponse(requestBody, response.json, endpoint,
                                      finalWorkflowId, requestMessages,
                                      timestamp, today, fsWorks)
            /\ effects' = effects \o << "logRequestResponse", "res.json" >>
       ELSE /\ UNCHANGED dataFiles
            /\ effects' = Append(effects, "res.json")
  /\ sent' = Append(sent, [status |-> response.status, body |-> response.json])
  /\ handlerAt' = "done"
  /\ UNCHANGED << endpoint, workflowId, config, headers, requestBody,
                  finalWorkflowId, forwardBody, requestMessages, timeoutId,
                  upstreamRequest, response, error >>
  /\ UNCHANGED << engineVars, serverVars, legacyVars >>

\* response.json() rejects: the body is no JSON, or the connection broke.
JsonRejects ==
  /\ UNCHANGED << today, elapsed, effects >>
  /\ handlerAt = "json"
  /\ \/ /\ response.json = NotJson
        /\ error' = [name |-> "SyntaxError", message |-> "Unexpected token"]
     \/ error' = [name |-> "TypeError", message |-> "terminated"]
  /\ handlerAt' = "catch"
  /\ UNCHANGED << endpoint, workflowId, config, headers, requestBody,
                  finalWorkflowId, forwardBody, requestMessages, timeoutId,
                  upstreamRequest, response, sent, dataFiles >>
  /\ UNCHANGED << engineVars, serverVars, legacyVars >>

\* catch (error) { handleProxyError(error, res); }
HandleProxyError ==
  /\ UNCHANGED << today, elapsed >>
  /\ handlerAt = "catch"
  /\ sent' = Append(sent, handleProxyError(error))
  /\ effects' = Append(effects, "res.json")
  /\ handlerAt' = "done"
  /\ UNCHANGED << endpoint, workflowId, config, headers, requestBody,
                  finalWorkflowId, forwardBody, requestMessages, timeoutId,
                  upstreamRequest, response, error, dataFiles >>
  /\ UNCHANGED << engineVars, serverVars, legacyVars >>

RelayNext ==
  \/ Forward
  \/ FetchResolves
  \/ TimeoutFires
  \/ FetchRejects
  \/ JsonResolves
  \/ JsonRejects
  \/ HandleProxyError

RelaySpec == RelayInit /\ [][RelayNext]_vars

\* The relay with the steps that are the handler's own, and the timer,
\* taken when they can be.
RelayFairSpec ==
  /\ RelaySpec
  /\ WF_vars(Forward)
  /\ WF_vars(TimeoutFires)
  /\ WF_vars(JsonResolves \/ JsonRejects)
  /\ WF_vars(HandleProxyError)

(***************************************************************************)
(* The relay with the time that passes while the upstream is awaited.      *)
(***************************************************************************)
\* setTimeout(() => controller.abort(), 60000), in seconds.
timeoutSeconds == 60

\* The time between two looks at the clock, and the time after which the
\* clock is not looked at any more.
TickSeconds == timeoutSeconds \div 2

MaxElapsed == 2 * timeoutSeconds

\* Time passes while the handler awaits the fetch or the body; a timer that
\* is set lets no time pass beyond its delay.
Tick ==
  /\ handlerAt \in {"fetch", "json"}
  /\ elapsed < MaxElapsed
  /\ timeoutId = "set" => elapsed < timeoutSeconds
  /\ elapsed' = elapsed + TickSeconds
  /\ UNCHANGED << endpoint, workflowId, config, headers, requestBody,
                  finalWorkflowId, forwardBody, requestMessages, timeoutId,
                  upstreamRequest, response, error, sent, dataFiles,
                  handlerAt, today, effects >>
  /\ UNCHANGED << engineVars, serverVars, legacyVars >>

\* The timer fires when its delay has passed.
TimerExpires ==
  /\ elapsed >= timeoutSeconds
  /\ TimeoutFires

TimedNext ==
  \/ Forward
  \/ FetchResolves
  \/ TimerExpires
  \/ FetchRejects
  \/ JsonResolves
  \/ JsonRejects
  \/ HandleProxyError
  \/ Tick

TimedSpec == RelayInit /\ [][TimedNext]_vars

\* What earlier exchanges, of the day or of the day before, have left in
\* the data files.
PriorDataFiles(day) ==
  {<< >>} \cup
  {logRequestResponse(Obj([model |-> Str("m"), prompt |-> Str("Earlier")]),
                      Obj([choices |-> Arr(<< Obj([text |-> Str("Yes")]) >>)]),
                      completionsPath, Str(id), Undefined, date, date, TRUE) :
     id \in {"summarize", "custom"},
     date \in {d \in Dates : d = day \/ d = FirstDay}}

\* A request has reached its handler, after earlier ones.
LogInit ==
  /\ RequestArrives
  /\ dataFiles \in PriorDataFiles(today)

\* Midnight passes while the request is being handled.
DayPasses ==
  /\ handlerAt # "done"
  /\ today = FirstDay
  /\ today' = SecondDay
  /\ UNCHANGED << endpoint, workflowId, config, headers, requestBody,
                  finalWorkflowId, forwardBody, requestMessages, timeoutId,
                  upstreamRequest, response, error, sent, dataFiles,
                  handlerAt, elapsed, effects >>
  /\ UNCHANGED << engineVars, serverVars, legacyVars >>

LogNext ==
  \/ RelayNext
  \/ DayPasses

LogSpec == LogInit /\ [][LogNext]_vars

(***************************************************************************)
(* calculateStructuralSimilarity called on its own, with any two strings.  *)
(***************************************************************************)
StructuralInit ==
  /\ RelayIdle
  /\ ServerIdle
  /\ LegacyIdle
  /\ earlier = << >>
  /\ \/ \E text \in Texts :
          \E other \in (Probes \ {Absent}) \cup {text} :
            \/ prompt1 = text /\ prompt2 = other
            \/ prompt1 = other /\ prompt2 = text
     \/ \E call \in TestCalls : prompt1 = call[1] /\ prompt2 = call[2]
  /\ pc = "structural alone"
  /\ normalizedPrompt1 = << >>
  /\ normalizedPrompt2 = << >>
  /\ jaccardSimilarity = Unassigned
  /\ cosineSimilarity = [num |-> 0, rad |-> 0]
  /\ structuralSimilarity = Unassigned
  /\ result = Unassigned
  /\ called = << >>

StructuralAlone ==
  /\ pc = "structural alone"
  /\ structuralSimilarity' = calculateStructuralSimilarity(prompt1, prompt2)
  /\ called' = Append(called, "calculateStructuralSimilarity")
  /\ pc' = "returned"
  /\ UNCHANGED << prompt1, prompt2, normalizedPrompt1, normalizedPrompt2,
                  jaccardSimilarity, cosineSimilarity, result >>
  /\ UNCHANGED << relayVars, serverVars, legacyVars, earlier >>

StructuralNext == StructuralAlone

StructuralSpec == StructuralInit /\ [][StructuralNext]_vars

(***************************************************************************)
(* Calls of createSimilarityScoreBetweenPrompts one after the other: the   *)
(* function is synchronous, so a call runs to its end before the next.     *)
(***************************************************************************)
MaxCalls == 2

\* The arguments of the calls.
CallPrompts == Probes

CallsInit ==
  /\ RelayIdle
  /\ ServerIdle
  /\ LegacyIdle
  /\ prompt1 \in CallPrompts
  /\ prompt2 \in CallPrompts
  /\ pc = "guard"
  /\ normalizedPrompt1 = << >>
  /\ normalizedPrompt2 = << >>
  /\ jaccardSimilarity = Unassigned
  /\ cosineSimilarity = [num |-> 0, rad |-> 0]
  /\ structuralSimilarity = Unassigned
  /\ result = Unassigned
  /\ called = << >>
  /\ earlier = << >>

\* calculateStructuralSimilarity, its matchers followed.
StructuralMatching ==
  /\ UNCHANGED << relayVars, serverVars, legacyVars, earlier >>
  /\ pc = "structural"
  /\ structuralSimilarity' = matchedStructuralSimilarity(prompt1, prompt2)
  /\ called' = Append(called, "calculateStructuralSimilarity")
  /\ pc' = "combine"
  /\ UNCHANGED << prompt1, prompt2, normalizedPrompt1, normalizedPrompt2,
                  jaccardSimilarity, cosineSimilarity, result >>

\* The call has returned and the next one is made: its constants are its
\* own.
NextCall ==
  /\ UNCHANGED << relayVars, serverVars, legacyVars >>
  /\ pc = "done"
  /\ Len(earlier) + 1 < MaxCalls
  /\ earlier' = Append(earlier, [prompt1 |-> prompt1, prompt2 |-> prompt2,
                                  result |-> result])
  /\ prompt1' \in CallPrompts
  /\ prompt2' \in CallPrompts
  /\ pc' = "guard"
  /\ normalizedPrompt1' = << >>
  /\ normalizedPrompt2' = << >>
  /\ jaccardSimilarity' = Unassigned
  /\ cosineSimilarity' = [num |-> 0, rad |-> 0]
  /\ structuralSimilarity' = Unassigned
  /\ result' = Unassigned
  /\ called' = << >>

CallsNext ==
  \/ ReturnZero
  \/ Normalize
  \/ Jaccard
  \/ Cosine
  \/ StructuralMatching
  \/ Combine
  \/ NextCall

CallsSpec == CallsInit /\ [][CallsNext]_vars

(***************************************************************************)
(* comparePrompts and findSimilarityScore, the two async functions at the  *)
(* end of routes.ts, beside createSimilarityScoreBetweenPrompts.           *)
(***************************************************************************)
Fulfilled(value) == [state |-> "fulfilled", value |-> value]

\* Calling trim on undefined throws inside the async function.
Rejected == [state |-> "rejected", reason |-> "TypeError"]

\* A comparison of the prompts as they are, not trimmed.
ComparePromptsUntrimmed(promptA, promptB) ==
  IF promptA = Absent \/ promptB = Absent THEN Rejected
  ELSE Fulfilled(promptA = promptB)

comparePrompts(promptA, promptB) ==
  IF promptA = Absent \/ promptB = Absent THEN Rejected
  ELSE Fulfilled(Trim(promptA) = Trim(promptB))

\* The score of the prompts as they are, not trimmed.
ScoreOfUntrimmed(promptA, promptB) ==
  IF promptA = Absent \/ promptB = Absent THEN Rejected
  ELSE IF promptA = promptB THEN Fulfilled(One)
  ELSE IF Len(promptA) = 0 \/ Len(promptB) = 0 THEN Fulfilled(Zero)
  ELSE LET length == Min(Len(promptA), Len(promptB))
           commonChars == Cardinality({i \in 1..length : promptA[i] = promptB[i]})
       IN  Fulfilled(Frac(commonChars, Max(Len(promptA), Len(promptB))))

findSimilarityScore(promptA, promptB) ==
  IF promptA = Absent \/ promptB = Absent THEN Rejected
  ELSE LET trimmedA == Trim(promptA)
           trimmedB == Trim(promptB)
           length == Min(Len(trimmedA), Len(trimmedB))
           commonChars ==
             Cardinality({i \in 1..length : trimmedA[i] = trimmedB[i]})
       IN  IF trimmedA = trimmedB THEN Fulfilled(One)
           ELSE IF Len(trimmedA) = 0 \/ Len(trimmedB) = 0 THEN Fulfilled(Zero)
           ELSE Fulfilled(Frac(commonChars,
                               Max(Len(trimmedA), Len(trimmedB))))

\* Two prompts, given to the three functions.
LegacyInit ==
  /\ RelayIdle
  /\ ServerIdle
  /\ LegacyIdle
  /\ \/ \E text \in Texts :
          \E other \in Probes \cup {text} :
            \/ prompt1 = text /\ prompt2 = other
            \/ prompt1 = other /\ prompt2 = text
     \/ \E call \in TestCalls : prompt1 = call[1] /\ prompt2 = call[2]
  /\ pc = "guard"
  /\ normalizedPrompt1 = << >>
  /\ normalizedPrompt2 = << >>
  /\ jaccardSimilarity = Unassigned
  /\ cosineSimilarity = [num |-> 0, rad |-> 0]
  /\ structuralSimilarity = Unassigned
  /\ result = Unassigned
  /\ called = << >>
  /\ earlier = << >>

ComparePrompts ==
  /\ comparison = Pending
  /\ comparison' = comparePrompts(prompt1, prompt2)
  /\ UNCHANGED similarity
  /\ UNCHANGED << engineVars, relayVars, serverVars >>

FindSimilarityScore ==
  /\ similarity = Pending
  /\ similarity' = findSimilarityScore(prompt1, prompt2)
  /\ UNCHANGED comparison
  /\ UNCHANGED << engineVars, relayVars, serverVars >>

\* createSimilarityScoreBetweenPrompts(prompt1, prompt2), from its call to
\* its return.
ScorePrompts ==
  /\ pc = "guard"
  /\ result' = createSimilarityScoreBetweenPrompts(prompt1, prompt2)
  /\ pc' = "done"
  /\ UNCHANGED << prompt1, prompt2, normalizedPrompt1, normalizedPrompt2,
                  jaccardSimilarity, cosineSimilarity, structuralSimilarity,
                  called, earlier >>
  /\ UNCHANGED << relayVars, serverVars, legacyVars >>

LegacyNext ==
  \/ ComparePrompts
  \/ FindSimilarityScore
  \/ ScorePrompts

LegacySpec == LegacyInit /\ [][LegacyNext]_vars

(***************************************************************************)
(* The port-mapping server: loadMappings and startServers.                 *)
(***************************************************************************)
\* The workflows and the ports of a mappings.json.
MappedWorkflows == {"summarize", "translate"}

Ports == {3000, 3001, 36830}

\* mappings.json: missing, not JSON, or an object of workflow ids and ports.
MappingsFiles ==
  { [exists |-> FALSE], [exists |-> TRUE, valid |-> FALSE] } \cup
  { [exists |-> TRUE, valid |-> TRUE, mappings |-> mappings] :
      mappings \in UNION {[ids -> Ports] : ids \in SUBSET MappedWorkflows} }

\* process.env after dotenv.config(): with or without PORT.
Environments == {<< >>} \cup {[PORT |-> port] : port \in Ports}

\* loadMappings: the parsed file, {} when reading or parsing throws.
loadMappings(file) ==
  IF file.exists /\ file.valid THEN file.mappings ELSE << >>

\* The calls of listen that startServers makes: the default server on port
\* 3000 when there is no mapping, else one server for each mapping.
startServers(mappings) ==
  IF DOMAIN mappings = {}
    THEN { [port |-> 3000, workflowId |-> "default"] }
    ELSE { [port |-> mappings[id], workflowId |-> id] : id \in DOMAIN mappings }

\* The process starts.
ServerInit ==
  /\ EngineIdle
  /\ RelayIdle
  /\ LegacyIdle
  /\ mappingsFile \in MappingsFiles
  /\ env \in Environments
  /\ pendingListens = {}
  /\ servers = {}
  /\ serverErrors = {}
  /\ serverAt = "start"

\* startServers(), to its end: every listen has been called.
StartServers ==
  /\ serverAt = "start"
  /\ pendingListens' = startServers(loadMappings(mappingsFile))
  /\ serverAt' = "started"
  /\ UNCHANGED << mappingsFile, env, servers, serverErrors >>
  /\ UNCHANGED << engineVars, relayVars, legacyVars >>

\* A server is bound to its port: the callback of listen runs.
Listening ==
  /\ serverAt = "started"
  /\ \E call \in pendingListens :
       /\ \A server \in servers : server.port # call.port
       /\ servers' = servers \cup {call}
       /\ pendingListens' = pendingListens \ {call}
  /\ UNCHANGED << mappingsFile, env, serverErrors, serverAt >>
  /\ UNCHANGED << engineVars, relayVars, legacyVars >>

\* The port is taken, by a server of this process or by another process:
\* the 'error' listener of setupErrorHandling reports it.
ListenFails ==
  /\ serverAt = "started"
  /\ \E call \in pendingListens :
       /\ serverErrors' = serverErrors \cup {call.port}
       /\ pendingListens' = pendingListens \ {call}
  /\ UNCHANGED << mappingsFile, env, servers, serverAt >>
  /\ UNCHANGED << engineVars, relayVars, legacyVars >>

ServerNext ==
  \/ StartServers
  \/ Listening
  \/ ListenFails

ServerSpec == ServerInit /\ [][ServerNext]_vars

(***************************************************************************)
(* Properties of createSimilarityScoreBetweenPrompts.                      *)
(***************************************************************************)
\* The call has returned after computing the three metrics.
Scored == pc = "done" /\ called # << >>

\* x < y
RLess(x, y) == x.n * y.d < y.n * x.d

\* C1: for every pair of prompts the returned score s is a number with
\* 0 <= s <= 1.
C1_ScoreInUnitInterval ==
  pc = "done" => result.d > 0 /\ RLeq(Zero, result) /\ RLeq(result, One)

\* A score strictly between 0 and 1 has been returned.
C1_Witness == Scored /\ result.d > 0 /\ RLess(Zero, result) /\ RLess(result, One)

\* C2: for every string a that is non-empty after trimming white space, the
\* score of (a, a) is exactly 1.
C2_IdentityScoresOne ==
  (pc = "done" /\ prompt1 = prompt2 /\ prompt1 # Absent /\ Trim(prompt1) # << >>)
    => result = One

\* C3: when either argument is the empty string or absent the result is
\* exactly 0, whatever the other argument, and neither normalizePrompt nor
\* any of the three metrics has been called.
C3_EmptyOrAbsentReturnsZero ==
  (prompt1 \in {<< >>, Absent} \/ prompt2 \in {<< >>, Absent})
    => /\ called = << >>
       /\ pc \in {"guard", "done"}
       /\ pc = "done" => result = Zero

\* The call has returned for an absent first argument and a second one with
\* words in it.
C3_Witness ==
  /\ pc = "done"
  /\ prompt1 = Absent
  /\ prompt2 \notin {<< >>, Absent}
  /\ normalizePrompt(prompt2) # << >>

\* C4: the score of (a, b) equals the score of (b, a), and each of the
\* Jaccard, cosine and structural scores is unchanged when its two arguments
\* are exchanged.
C4_Symmetric ==
  /\ pc = "done" =>
       result = createSimilarityScoreBetweenPrompts(prompt2, prompt1)
  /\ Scored =>
       /\ jaccardSimilarity =
            calculateJaccardSimilarity(normalizedPrompt2, normalizedPrompt1)
       /\ cosineSimilarity =
            calculateCosineSimilarity(normalizedPrompt2, normalizedPrompt1)
       /\ structuralSimilarity =
            calculateStructuralSimilarity(prompt2, prompt1)

\* Two prompts of different lengths, different words and different
\* structure have been scored.
C4_Witness ==
  /\ Scored
  /\ Len(prompt1) # Len(prompt2)
  /\ normalizedPrompt1 # normalizedPrompt2
  /\ RLess(Zero, jaccardSimilarity) /\ RLess(jaccardSimilarity, One)
  /\ RLess(structuralSimilarity, One)

\* 1000 * (0.3 * jaccard + 0.4 * cosine + 0.3 * structural) >= k - 1/2: with
\* jaccard = jn/jd, structural = sn/sd and cosine = num/sqrt(rad), this is
\*   (2k - 1) * jd * sd - 600 * (jn * sd + sn * jd)
\*     <= 800 * num * jd * sd / sqrt(rad).
WeightedSumAtLeast(k, jaccard, cosine, structural) ==
  LET jdsd == BigMul(BigOf(jaccard.d), BigOf(structural.d))
      left == BigMul(BigOf(2 * k - 1), jdsd)
      rational ==
        BigMul(BigOf(600),
               BigAdd(BigMul(BigOf(jaccard.n), BigOf(structural.d)),
                      BigMul(BigOf(structural.n), BigOf(jaccard.d))))
      surd == BigMul(BigOf(800 * cosine.num), jdsd)
      rest == BigSub(left, rational)
  IN  \/ k <= 0
      \/ BigLeq(left, rational)
      \/ BigLeq(BigMul(BigMul(rest, rest), BigOf(cosine.rad)), BigMul(surd, surd))

Fillers ==
  { << "t", "h", "e" >>, << "T", "h", "e" >>, << "a", "n", "d" >>,
    << "a", "b" >>, << "z" >> }

\* The places of a prompt that are not inside a word.
Gaps(prompt) ==
  {i \in 0..Len(prompt) :
     ~(i >= 1 /\ i < Len(prompt) /\ prompt[i] \in WordChars
         /\ prompt[i + 1] \in WordChars)}

\* The prompt with the word, between two spaces, inserted after place i.
Inserted(prompt, i, word) ==
  SubSeq(prompt, 1, i) \o << " " >> \o word \o << " " >>
    \o SubSeq(prompt, i + 1, Len(prompt))

\* C6: inserting a stop word or a word of at most two characters, separated
\* by white space, at any place between the words of a prompt leaves its
\* normalized words the same, and so the Jaccard and cosine scores against
\* any other prompt (removing one is the same edit read backwards).
C6_FillersLeaveWordScores ==
  (Scored /\ << prompt1, prompt2 >> \notin TestCalls)
    => \A word \in Fillers : \A i \in Gaps(prompt1) :
         LET edited == normalizePrompt(Inserted(prompt1, i, word))
         IN  /\ edited = normalizedPrompt1
             /\ calculateJaccardSimilarity(edited, normalizedPrompt2)
                  = jaccardSimilarity
             /\ calculateCosineSimilarity(edited, normalizedPrompt2)
                  = cosineSimilarity

\* A prompt with a word, a stop word and a place inside a word has been
\* scored against a prompt that shares one of its words.
C6_Witness ==
  /\ Scored
  /\ prompt1 = << "c", "a", "t", " ", "t", "h", "e" >>
  /\ RLess(Zero, jaccardSimilarity) /\ RLess(jaccardSimilarity, One)
  /\ Gaps(prompt1) # 0..Len(prompt1)

\* C7: the call is total: before its return it is at a step it can take,
\* no metric it has computed is NaN or undefined, and what it returns is a
\* number, never NaN and never undefined.
C7_Total ==
  /\ pc \in {"guard", "jaccard", "cosine", "structural", "combine", "done"}
  /\ pc \in {"cosine", "structural", "combine"} =>
       jaccardSimilarity # Unassigned /\ ~IsNaN(jaccardSimilarity)
  /\ pc \in {"structural", "combine"} => cosineSimilarity.rad > 0
  /\ pc = "combine" =>
       structuralSimilarity # Unassigned /\ ~IsNaN(structuralSimilarity)
  /\ pc = "done" => result # Unassigned /\ ~IsNaN(result)

\* Two prompts without a single word left by normalizePrompt have been
\* scored.
C7_Witness ==
  /\ Scored
  /\ normalizedPrompt1 = << >>
  /\ normalizedPrompt2 = << >>
  /\ prompt1 # prompt2

\* C8: the 10-K prompt scores more than 0.7 against the 10-K prompt and less
\* than 0.4 against the news prompt, so the first score is the greater.
C8_TemplateScores ==
  /\ (pc = "done" /\ prompt1 = tenKPrompt1 /\ prompt2 = tenKPrompt2)
       => RLess(Frac(7, 10), result)
  /\ (pc = "done" /\ prompt1 = tenKPrompt1 /\ prompt2 = newsPrompt)
       => /\ RLess(result, Frac(4, 10))
          /\ RLess(result,
                   createSimilarityScoreBetweenPrompts(tenKPrompt1, tenKPrompt2))

\* The 10-K prompt has been scored against the news prompt.
C8_Witness ==
  /\ Scored
  /\ prompt1 = tenKPrompt1
  /\ prompt2 = newsPrompt
  /\ RLess(Zero, result)

(***************************************************************************)
(* Properties of the relay.                                                *)
(***************************************************************************)
\* The upstream has answered and its JSON body has been read.
UpstreamAnswered ==
  response # Undefined /\ response.json # NotJson /\ error = Undefined

\* What the one response of a finished request is.
ResponseMatchesOutcome ==
  /\ Len(sent) = 1
  /\ UpstreamAnswered =>
       sent[1] = [status |-> response.status, body |-> response.json]
  /\ (~UpstreamAnswered /\ timeoutId = "fired") => sent[1].status = 408
  /\ (~UpstreamAnswered /\ timeoutId # "fired") => sent[1].status = 500

OverridingWorkflowId ==
  IF Truthy(Get(requestBody, "workflow_id"))
    THEN Get(requestBody, "workflow_id")
    ELSE Str(workflowId)

UnknownWorkflowRequested ==
  /\ requestBody.type = "object"
  /\ Truthy(Get(requestBody, "workflow_id"))
  /\ ~(/\ Get(requestBody, "workflow_id").type = "string"
       /\ Get(requestBody, "workflow_id").value \in ConfiguredWorkflowIds)

\* C11: a request whose body carries a workflow_id that the configuration
\* does not define is answered with an error: it is neither forwarded
\* upstream nor logged under that id.
C11_UnknownWorkflowIdRejected ==
  UnknownWorkflowRequested
    => /\ upstreamRequest = Undefined
       /\ dataFiles = << >>
       /\ handlerAt = "done" => (Len(sent) = 1 /\ sent[1].status >= 400)

\* The step answers the client with what an ok upstream answered.
ExchangeSucceeds ==
  /\ handlerAt = "json"
  /\ handlerAt' = "done"
  /\ Ok(response)
  /\ sent' = << [status |-> response.status, body |-> response.json] >>

\* The last line of the data files after the step is the record of the
\* exchange, in the file of its workflow and of the day.
RecordOfExchangeAppended ==
  LET line == dataFiles'[Len(dataFiles')]
      record == line.line.of
  IN  /\ line.file = << "data", OverridingWorkflowId.value, today, "data.jsonl" >>
      /\ record.type = "object"
      /\ DOMAIN record.fields
           = {"messages", "timestamp", "endpoint", "model", "workflow_id"}
      /\ record.fields.workflow_id = OverridingWorkflowId
      /\ record.fields.endpoint = Str(endpoint)
      /\ record.fields.messages.type = "array"
      /\ Len(record.fields.messages.items) >= 1

Normalized == called # << >>

\* The tokens of a text: its maximal runs of characters that are not white
\* space, in their order.
Tokens(text) ==
  LET Starts == {i \in 1..Len(text) :
                   /\ text[i] \notin WhiteSpace
                   /\ i = 1 \/ text[i - 1] \in WhiteSpace}
      End(i) == CHOOSE j \in i..Len(text) :
                  /\ j = Len(text) \/ text[j + 1] \in WhiteSpace
                  /\ \A k \in i..j : text[k] \notin WhiteSpace
      runs == [i \in 1..Len(text) |->
                 IF i \in Starts THEN << SubSeq(text, i, End(i)) >> ELSE << >>]
  IN  ConcatRange(runs, 1, Len(text))

\* The tokens of three characters or more that are not stop words.
SignificantTokens(tokens) ==
  LET Significant(token) == Len(token) >= 3 /\ token \notin stopWords
  IN  SelectSeq(tokens, Significant)

\* C14: every character that is not a letter, a digit or white space is
\* replaced by a space, so every token normalizePrompt returns is made of
\* lower-case letters and digits only: an underscore separates two tokens.
C14_TokensOfLettersAndDigits ==
  Normalized =>
    \A token \in Range(normalizedPrompt1) \cup Range(normalizedPrompt2) :
      \A i \in 1..Len(token) : token[i] \in Range(LowerLetters) \cup Digits

\* C15: what normalizePrompt returns is the subsequence, in the order of the
\* text and with its duplicates, of the lower-cased tokens between white
\* space that have three characters or more and are not stop words: no
\* token returned is empty, shorter than three characters or a stop word.
C15_SignificantTokensInOrder ==
  Normalized =>
    /\ normalizedPrompt1 =
         SignificantTokens(Tokens(ReplacePunctuation(toLowerCase(prompt1))))
    /\ normalizedPrompt2 =
         SignificantTokens(Tokens(ReplacePunctuation(toLowerCase(prompt2))))
    /\ \A token \in Range(normalizedPrompt1) \cup Range(normalizedPrompt2) :
         Len(token) >= 3 /\ token \notin stopWords

\* A prompt has kept a token twice, and the other prompt has lost a token.
C15_Witness ==
  /\ Normalized
  /\ \E i, j \in 1..Len(normalizedPrompt1) :
       i < j /\ normalizedPrompt1[i] = normalizedPrompt1[j]
  /\ Len(normalizedPrompt2) <
       Len(Tokens(ReplacePunctuation(toLowerCase(prompt2))))

(***************************************************************************)
(* Properties of the two metrics over the token lists.                     *)
(***************************************************************************)
\* calculateJaccardSimilarity has returned.
JaccardComputed == Normalized /\ pc \in {"cosine", "structural", "combine", "done"}

\* calculateCosineSimilarity has returned.
CosineComputed == Normalized /\ pc \in {"structural", "combine", "done"}

\* The words of a list from the last to the first.
Reversed(words) == [i \in 1..Len(words) |-> words[Len(words) + 1 - i]]

\* The square of the magnitude of the term-frequency vector of a list: the
\* sum over its words of the squares of their counts, which is the number
\* of pairs of places that hold the same word.
SquaredMagnitude(words) ==
  Cardinality({pair \in (DOMAIN words) \X (DOMAIN words) :
                 words[pair[1]] = words[pair[2]]})

\* C16: calculateJaccardSimilarity returns the size of the intersection of
\* the two sets of words over the size of their union, whatever the order
\* and the repetitions of the words in the lists, and 0, not NaN, when the
\* two lists are empty.
C16_JaccardOfWordSets ==
  JaccardComputed =>
    LET set1 == Range(normalizedPrompt1)
        set2 == Range(normalizedPrompt2)
    IN  /\ jaccardSimilarity.d > 0
        /\ jaccardSimilarity.n * Cardinality(set1 \cup set2)
             = Cardinality(set1 \cap set2) * jaccardSimilarity.d
        /\ set1 \cup set2 = {} => jaccardSimilarity = Zero
        /\ calculateJaccardSimilarity(
             Reversed(normalizedPrompt1) \o normalizedPrompt1,
             normalizedPrompt2 \o Reversed(normalizedPrompt2))
             = jaccardSimilarity

\* The lists share a word, each has a word of its own, and one of them has
\* a word twice.
C16_Witness ==
  /\ JaccardComputed
  /\ Len(normalizedPrompt1) > Cardinality(Range(normalizedPrompt1))
  /\ Range(normalizedPrompt1) \cap Range(normalizedPrompt2) # {}
  /\ Range(normalizedPrompt1) \ Range(normalizedPrompt2) # {}
  /\ Range(normalizedPrompt2) \ Range(normalizedPrompt1) # {}

\* C17: calculateCosineSimilarity never divides by zero: the magnitude of a
\* term-frequency vector is 0 exactly when its token list is empty, and
\* when either list is empty the function returns 0.
C17_CosineNeverDividesByZero ==
  CosineComputed =>
    /\ SquaredMagnitude(normalizedPrompt1) = 0 <=> normalizedPrompt1 = << >>
    /\ SquaredMagnitude(normalizedPrompt2) = 0 <=> normalizedPrompt2 = << >>
    /\ cosineSimilarity.rad > 0
    /\ (normalizedPrompt1 = << >> \/ normalizedPrompt2 = << >>)
         => cosineSimilarity = [num |-> 0, rad |-> 1]
    /\ (normalizedPrompt1 # << >> /\ normalizedPrompt2 # << >>)
         => cosineSimilarity.rad = SquaredMagnitude(normalizedPrompt1)
                                     * SquaredMagnitude(normalizedPrompt2)

\* The cosine of an empty token list and a list with words has been taken.
C17_Witness ==
  /\ CosineComputed
  /\ normalizedPrompt1 = << >>
  /\ normalizedPrompt2 # << >>
  /\ cosineSimilarity.num = 0

(***************************************************************************)
(* Properties of the three metrics.                                        *)
(***************************************************************************)
\* C18: for every pair of non-empty prompts each of the three metrics the
\* score is combined from is in [0,1]: the Jaccard similarity, the cosine
\* similarity and the structural similarity.
C18_MetricsInUnitInterval ==
  Scored =>
    /\ jaccardSimilarity.d > 0
    /\ RLeq(Zero, jaccardSimilarity) /\ RLeq(jaccardSimilarity, One)
    /\ structuralSimilarity.d > 0
    /\ RLeq(Zero, structuralSimilarity) /\ RLeq(structuralSimilarity, One)
    /\ cosineSimilarity.num >= 0
    /\ ~cosineAboveOne(normalizedPrompt1, normalizedPrompt2)

(***************************************************************************)
(* Properties of calculateStructuralSimilarity.                            *)
(***************************************************************************)
\* 1 when neither prompt has a match, else 1 - |m1 - m2| / max(m1, m2).
TermOfCounts(m1, m2) ==
  IF m1 = 0 /\ m2 = 0 THEN One
  ELSE IF m1 >= m2 THEN Frac(m1 - (m1 - m2), m1)
  ELSE Frac(m2 - (m2 - m1), m2)

TermOf(pattern) ==
  TermOfCounts(MatchCount(pattern, prompt1), MatchCount(pattern, prompt2))

\* C19: calculateStructuralSimilarity returns the mean of exactly 8 terms:
\* for each of the 7 patterns, with m1 and m2 matches, 1 when
\* max(m1, m2) = 0 and 1 - |m1 - m2| / max(m1, m2) otherwise, and the ratio
\* min(len1, len2) / max(len1, len2); the divisor is 8 on every call.
C19_MeanOfEightTerms ==
  pc = "returned" =>
    LET ratio == Quotient(Min(Len(prompt1), Len(prompt2)),
                          Max(Len(prompt1), Len(prompt2)))
        total == RAdd(RAdd(RAdd(RAdd(TermOf("bold"), TermOf("headers")),
                                RAdd(TermOf("bullets"), TermOf("braces"))),
                           RAdd(RAdd(TermOf("brackets"), TermOf("verbs")),
                                TermOf("format"))),
                      ratio)
    IN  /\ Len(formatPatterns) = 7
        /\ structuralSimilarity = RDivInt(total, 8)

\* Two prompts of different lengths, with a pattern that matches both but
\* not as often, and a pattern that matches only one of them.
C19_Witness ==
  /\ pc = "returned"
  /\ Len(prompt1) # Len(prompt2)
  /\ \E pattern \in Range(formatPatterns) :
       /\ MatchCount(pattern, prompt1) > 0
       /\ MatchCount(pattern, prompt2) > MatchCount(pattern, prompt1)
  /\ \E pattern \in Range(formatPatterns) :
       MatchCount(pattern, prompt1) > 0 /\ MatchCount(pattern, prompt2) = 0

\* C20: called on its own with two empty prompts,
\* calculateStructuralSimilarity("", "") returns a defined number in [0,1],
\* not NaN: the zero denominator of the length ratio is handled.
C20_EmptyPromptsScoreDefined ==
  (pc = "returned" /\ prompt1 = << >> /\ prompt2 = << >>)
    => /\ ~IsNaN(structuralSimilarity)
       /\ RLeq(Zero, structuralSimilarity)
       /\ RLeq(structuralSimilarity, One)

(***************************************************************************)
(* Properties of the port-mapping server.                                  *)
(***************************************************************************)
\* C13: when there is no mappings.json, so that loadMappings yields the
\* empty mapping, startServers starts one server, of the workflow
\* "default", on the port that the environment defines as PORT.
C13_DefaultServerOnEnvPort ==
  (serverAt = "started" /\ ~mappingsFile.exists /\ "PORT" \in DOMAIN env)
    => pendingListens \cup servers \cup
         {[port |-> port, workflowId |-> "default"] : port \in serverErrors}
         = { [port |-> env.PORT, workflowId |-> "default"] }

(***************************************************************************)
(* Properties of the call of calculateStructuralSimilarity by              *)
(* createSimilarityScoreBetweenPrompts.                                    *)
(***************************************************************************)
\* The call has passed the test of line 8.
PastGuard == pc \in {"jaccard", "cosine", "structural", "combine"} \/ Scored

\* C21: in every call of calculateStructuralSimilarity made by
\* createSimilarityScoreBetweenPrompts the two prompts are strings of one
\* character or more, so the denominator max(len1, len2) of the length
\* ratio is not 0.
C21_StructuralPromptsNotEmpty ==
  PastGuard =>
    /\ prompt1 # Absent /\ prompt2 # Absent
    /\ Len(prompt1) >= 1 /\ Len(prompt2) >= 1
    /\ Max(Len(prompt1), Len(prompt2)) # 0
    /\ ~IsNaN(lengthRatio(prompt1, prompt2))
    /\ "calculateStructuralSimilarity" \in Range(called)
         => ~IsNaN(structuralSimilarity)

\* calculateStructuralSimilarity has been called with a prompt of one
\* character.
C21_Witness ==
  /\ pc = "combine"
  /\ Len(prompt1) = 1
  /\ Len(prompt2) > 1
  /\ "calculateStructuralSimilarity" \in Range(called)

(***************************************************************************)
(* Properties of calls that follow one another.                            *)
(***************************************************************************)
\* C22: the result of createSimilarityScoreBetweenPrompts(a, b) depends on
\* (a, b) alone: whatever calls came before, and although each matcher with
\* the g flag is used for the two prompts, a call returns what a call on
\* its own returns, and two calls with the same arguments return the same.
C22_ResultOfArgumentsAlone ==
  pc = "done" =>
    /\ result = createSimilarityScoreBetweenPrompts(prompt1, prompt2)
    /\ \A k \in 1..Len(earlier) :
         /\ earlier[k].result =
              createSimilarityScoreBetweenPrompts(earlier[k].prompt1,
                                                  earlier[k].prompt2)
         /\ (earlier[k].prompt1 = prompt1 /\ earlier[k].prompt2 = prompt2)
              => earlier[k].result = result

\* A call has returned after a call with other arguments and another
\* result, and a matcher has found matches in its two prompts.
C22_Witness ==
  /\ pc = "done"
  /\ Len(earlier) = 1
  /\ earlier[1].prompt1 # prompt1
  /\ earlier[1].result # result
  /\ earlier[1].result # Zero
  /\ MatchCount("bold", prompt1) > 0
  /\ MatchCount("bold", prompt2) > 0

(***************************************************************************)
(* Properties of comparePrompts and findSimilarityScore.                   *)
(***************************************************************************)
\* The three functions have returned.
AllCompared == pc = "done" /\ comparison # Pending /\ similarity # Pending

\* The prompt is a string that is empty or has white space only.
Blank(prompt) == prompt # Absent /\ Trim(prompt) = << >>

\* C23: the strategies differ on empty input: for two empty prompts
\* createSimilarityScoreBetweenPrompts returns 0, while for two prompts that
\* are empty or of white space only findSimilarityScore returns 1.0 and
\* comparePrompts returns true.
C23_StrategiesDifferOnEmptyInput ==
  (AllCompared /\ Blank(prompt1) /\ Blank(prompt2)) =>
    /\ similarity = Fulfilled(One)
    /\ comparison = Fulfilled(TRUE)
    /\ (prompt1 = << >> /\ prompt2 = << >>) => result = Zero
    /\ result # similarity.value

\* An empty prompt and a prompt of white space have been compared and
\* scored.
C23_Witness ==
  /\ AllCompared
  /\ prompt1 = << >>
  /\ Blank(prompt2)
  /\ Len(prompt2) = 2

(***************************************************************************)
(* Properties of the relay in time.                                        *)
(***************************************************************************)
\* C24: a request is never pending for more than 60 seconds after it was
\* forwarded: when the status and the body of the upstream have not been
\* received by then, the forward is aborted and the caller receives the
\* status 408 with the error "Request timeout".
C24_NeverPendingBeyondTimeout ==
  /\ handlerAt \in {"fetch", "json"} => elapsed <= timeoutSeconds
  /\ (handlerAt = "done" /\ elapsed >= timeoutSeconds) =>
       /\ timeoutId = "fired"
       /\ Len(sent) = 1
       /\ sent[1].status = 408
       /\ Get(sent[1].body, "error") = Str("Request timeout")

(***************************************************************************)
(* Properties of the log of the relay.                                     *)
(***************************************************************************)
\* The step in which the handler answers with what the upstream answered.
AnswersUpstream == handlerAt = "json" /\ handlerAt' = "done"

\* The status of the upstream is one of success.
SuccessStatus == response.status >= 200 /\ response.status <= 299

\* C25: a record is written for a successful exchange only: when the
\* upstream answers with a status that is not ok, when the forward times
\* out, or when an error is thrown before the body of the upstream is
\* parsed, nothing is appended; when the upstream is ok the append is
\* attempted exactly once, before the response is sent to the caller.
C25_LogOnlyAfterSuccess ==
  /\ [][dataFiles' # dataFiles =>
          /\ AnswersUpstream
          /\ SuccessStatus
          /\ response.json # NotJson
          /\ error = Undefined]_vars
  /\ [][AnswersUpstream =>
          effects' = effects \o
            (IF SuccessStatus THEN << "logRequestResponse", "res.json" >>
             ELSE << "res.json" >>)]_vars
  /\ [](handlerAt # "done" => effects = << >>)
  /\ [](handlerAt = "done" =>
          IF UpstreamAnswered /\ SuccessStatus
            THEN effects = << "logRequestResponse", "res.json" >>
            ELSE effects = << "res.json" >>)

\* An upstream that is not ok has been answered to the caller, and the
\* record of an earlier exchange is all there is in the data files.
C25_Witness ==
  /\ handlerAt = "done"
  /\ UpstreamAnswered
  /\ response.status = 503
  /\ effects = << "res.json" >>
  /\ Len(dataFiles) = 1

\* An ok upstream is answered to the caller although nothing was saved.
AnswersUnsaved == AnswersUpstream /\ SuccessStatus /\ dataFiles' = dataFiles

\* The line is a whole record.
WholeRecord(line) ==
  /\ line.line.type = "string"
  /\ line.line.value = "json"
  /\ line.line.of.type = "object"
  /\ DOMAIN line.line.of.fields
       = {"messages", "timestamp", "endpoint", "model", "workflow_id"}

NoCommonToken == Range(normalizedPrompt1) \cap Range(normalizedPrompt2) = {}

\* C28: the Jaccard similarity of two token lists is 0 exactly when their
\* cosine similarity is 0, and both exactly when the lists have no token in
\* common; so two prompts that are not empty and have no normalized token
\* in common never score more than 0.3.
C28_JaccardZeroIffCosineZero ==
  /\ CosineComputed =>
       /\ jaccardSimilarity = Zero <=> cosineSimilarity.num = 0
       /\ jaccardSimilarity = Zero <=> NoCommonToken
  /\ (Scored /\ NoCommonToken) => RLeq(result, Frac(3, 10))

\* Two prompts with tokens, none in common, have a score above 0.
C28_Witness ==
  /\ Scored
  /\ normalizedPrompt1 # << >>
  /\ normalizedPrompt2 # << >>
  /\ NoCommonToken
  /\ RLess(Zero, result)

(***************************************************************************)
(* comparePrompts against findSimilarityScore.                             *)
(***************************************************************************)
\* The positions at which the trimmed prompts have the same character.
SamePositions ==
  LET trimmedA == Trim(prompt1)
      trimmedB == Trim(prompt2)
  IN  {i \in DOMAIN trimmedA \cap DOMAIN trimmedB : trimmedA[i] = trimmedB[i]}

\* The length of the longer trimmed prompt.
LongerTrimmedLength == Max(Len(Trim(prompt1)), Len(Trim(prompt2)))

\* C29: the two strategies agree: for all strings a and b comparePrompts(a, b)
\* is true exactly when findSimilarityScore(a, b) is 1.0; otherwise
\* findSimilarityScore is the number of positions at which the trimmed
\* strings have the same character divided by the longer trimmed length; it
\* is symmetric, it lies in [0, 1), and it is 0 when exactly one trimmed
\* string is empty.
C29_LegacyStrategiesAgree ==
  (comparison # Pending /\ similarity # Pending
     /\ prompt1 # Absent /\ prompt2 # Absent) =>
    /\ comparison.state = "fulfilled"
    /\ similarity.state = "fulfilled"
    /\ comparison.value = TRUE <=> similarity.value = One
    /\ similarity.value # One =>
         /\ similarity.value =
              Frac(Cardinality(SamePositions), LongerTrimmedLength)
         /\ RLeq(Zero, similarity.value)
         /\ RLess(similarity.value, One)
    /\ similarity = findSimilarityScore(prompt2, prompt1)
    /\ (Trim(prompt1) = << >>) # (Trim(prompt2) = << >>)
         => similarity.value = Zero

\* Two prompts of different trimmed lengths with a character in common at
\* some position have been compared.
C29_Witness ==
  /\ comparison = Fulfilled(FALSE)
  /\ similarity # Pending
  /\ prompt1 # Absent
  /\ prompt2 # Absent
  /\ Len(Trim(prompt1)) # Len(Trim(prompt2))
  /\ SamePositions # {}
  /\ RLess(Zero, similarity.value)
  /\ RLess(similarity.value, One)

====
